---------------------------- MODULE Spec2Model ----------------------------
(***************************************************************************)
(* A model of the minijinja bytecode VM (src/minijinja/src/vm/mod.rs).     *)
(*                                                                         *)
(* The dispatch loop eval_impl is modelled one opcode per action.  The     *)
(* host recursion of the VM (call_block, perform_super, perform_include    *)
(* and eval_macro each call eval_impl again) is modelled by the sequence   *)
(* `calls` of activations: an opcode that enters a nested evaluation       *)
(* pushes an activation, and the code that follows the nested eval_state   *)
(* call in the source is the matching *_return action.                     *)
(*                                                                         *)
(* Program counters are 0-based as in the source; strings are sequences   *)
(* of tokens so that concatenation (captured output) can be computed.      *)
(***************************************************************************)
EXTENDS Integers, Sequences, FiniteSets, TLC

VARIABLES
    state,            \* the State threaded through the evaluation
    out,              \* the Output: capture stack and sink
    calls,            \* host call stack of eval_impl activations
    rv,               \* result handed back by the eval_impl that just returned
    closures,         \* closure records kept alive by the closure tracker
    recursion_limit,  \* Environment::recursion_limit()
    root,             \* name of the template handed to Vm::eval
    report,           \* entry/exit snapshot of the last call that returned
    hist              \* counters of output operations over the whole run

vars == <<state, out, calls, rv, closures, recursion_limit, root, report, hist>>

----------------------------------------------------------------------------
(* Bounds of the model and constants of the program                        *)

\* largest recursion limit the environment is configured with
MaxLimit == 24

\* the cost of a single include against the stack limit
INCLUDE_RECURSION_COST == 10

\* the cost of a single macro call against the stack limit
MACRO_RECURSION_COST == 4

\* width of the loop index (usize) in the model: idx wraps at 2^16
UsizeModulus == 65536

LOOP_FLAG_RECURSIVE == 1

LOOP_FLAG_WITH_LOOP_VAR == 2

\* the number of filter and of test slots eval_impl keeps
MAX_LOCALS == 50

----------------------------------------------------------------------------
(* Values                                                                  *)

Undefined == [t |-> "undefined", v |-> <<>>]
Str(s) == [t |-> "str", v |-> <<s>>]
Text(toks) == [t |-> "str", v |-> toks]
Bool(b) == [t |-> "bool", v |-> b]
List(xs) == [t |-> "seq", v |-> xs]
Number(n) == [t |-> "number", v |-> n]
RootValue == [t |-> "map", v |-> <<>>]
ClosureRef(id) == [t |-> "closure", v |-> id]
MacroValue(name, id, closure, caller) ==
    [t |-> "macro", v |-> [name |-> name, macro_ref_id |-> id,
                           closure |-> closure, caller_reference |-> caller]]

IsUndefined(x) == x.t = "undefined"

\* Value::as_str
as_str(x) == IF x.t = "str" /\ Len(x.v) = 1 THEN x.v[1] ELSE ""

\* the undefined-behaviour policies the environment is configured with
UndefinedBehaviors == {"Lenient", "Strict"}

\* UndefinedBehavior::is_true: the truthiness of a value; Strict refuses to
\* tell it of undefined
is_true(ub, x) ==
    IF x.t = "undefined" /\ ub = "Strict" THEN [ok |-> FALSE, v |-> FALSE]
    ELSE [ok |-> TRUE,
          v |-> CASE x.t = "undefined" -> FALSE
                  [] x.t = "none" -> FALSE
                  [] x.t = "bool" -> x.v
                  [] x.t \in {"str", "seq"} -> x.v # <<>>
                  [] OTHER -> TRUE]

\* the text a value is formatted to by Emit
Format(x) ==
    CASE x.t = "str" -> x.v
      [] x.t = "undefined" -> <<>>
      [] x.t = "bool" -> IF x.v THEN <<"true">> ELSE <<"false">>
      [] OTHER -> <<x.t>>

----------------------------------------------------------------------------
(* Instructions                                                            *)

Op0(op) == [op |-> op, s |-> "", n |-> 0, m |-> 0, c |-> Undefined]
OpS(op, s) == [op |-> op, s |-> s, n |-> 0, m |-> 0, c |-> Undefined]
OpN(op, n) == [op |-> op, s |-> "", n |-> n, m |-> 0, c |-> Undefined]
OpSN(op, s, n) == [op |-> op, s |-> s, n |-> n, m |-> 0, c |-> Undefined]
OpSNM(op, s, n, m) == [op |-> op, s |-> s, n |-> n, m |-> m, c |-> Undefined]
LoadConst(c) == [op |-> "LoadConst", s |-> "", n |-> 0, m |-> 0, c |-> c]

\* the tree {a:{b:{}}, c:{}} as nested lists of children
Tree == List(<<List(<<List(<<>>)>>), List(<<>>)>>)

\* the tree {a:{b:{}}}
Chain == List(<<List(<<List(<<>>)>>)>>)

\* `{% extends parent %}`
Extends(parent) == <<LoadConst(Str(parent)), Op0("LoadBlocks")>>

\* `{% for item in <iterable on the stack> recursive %}n{{ loop(item) }}{% endfor %}`
\* placed at pc `at`
RecursiveLoop(at, call) ==
    << OpN("PushLoop", LOOP_FLAG_RECURSIVE + LOOP_FLAG_WITH_LOOP_VAR),
       OpN("Iterate", at + 6 + Len(call)),
       OpS("StoreLocal", "item"),
       OpS("EmitRaw", "n"),
       OpS("Lookup", "item") >> \o call \o
    << OpN("Jump", at + 1),
       Op0("PopFrame") >>

\* `{% with %}{{ nofunc() }}{% endwith %}`: fails inside a pushed frame
FailingBody ==
    << Op0("PushWith"), OpSN("CallFunction", "nofunc", 0), Op0("Emit"), Op0("PopFrame") >>

\* `{% for item in items %}A{% else %}B{% endfor %}`
ForElse(items) ==
    << LoadConst(List(items)),
       OpN("PushLoop", LOOP_FLAG_WITH_LOOP_VAR),
       OpN("Iterate", 6),
       OpS("StoreLocal", "item"),
       OpS("EmitRaw", "A"),
       OpN("Jump", 2),
       Op0("PushDidNotIterate"),
       Op0("PopFrame"),
       OpN("JumpIfFalse", 10),
       OpS("EmitRaw", "B") >>

\* `{% include operand [ignore missing] %}k`
IncludeOf(operand, ignore_missing) ==
    << LoadConst(operand), OpN("Include", IF ignore_missing THEN 1 ELSE 0),
       OpS("EmitRaw", "k") >>

\* `{% macro name() %}a{{ callee() }}{% endmacro %}` placed at pc `at`; the
\* body starts at at + 1 and the callee is the only free name of the body
MacroDecl(at, name, callee) ==
    LET call == IF callee = "" THEN <<>>
                ELSE << OpSN("CallFunction", callee, 0), Op0("Emit") >>
        encl == IF callee = "" THEN <<>> ELSE << OpS("Enclose", callee) >>
    IN  << OpN("Jump", at + 3 + Len(call)), OpS("EmitRaw", "a") >> \o call \o
        << Op0("Return") >> \o encl \o
        << Op0("GetClosure"), LoadConst(List(<<>>)),
           OpSNM("BuildMacro", name, at + 1, 0), OpS("StoreLocal", name) >>

\* `{% autoescape value %}body{% endautoescape %}`
AutoEscapeOf(value, body) ==
    << value, Op0("PushAutoEscape") >> \o body \o << Op0("PopAutoEscape") >>

\* The compiled instruction sequences of the environment's templates: the
\* template bodies by template name, the block bodies by "template:block".
Code ==
    [ leaf |-> << OpS("EmitRaw", "L") >>,
      base |-> << OpS("EmitRaw", "<"), OpS("CallBlock", "body"), OpS("EmitRaw", ">") >>,
      base_body |-> << OpS("EmitRaw", "P") >>,
      child |-> Extends("base") \o
                << OpS("EmitRaw", "x"), OpS("CallBlock", "body") >>,
      child_body |-> << OpS("EmitRaw", "["), OpSN("CallFunction", "super", 0),
                        Op0("Emit"), OpS("EmitRaw", "]") >>,
      grand |-> Extends("child") \o << OpS("CallBlock", "body") >>,
      grand_body |-> << OpS("EmitRaw", "g"), Op0("FastSuper"), OpS("EmitRaw", "h") >>,
      selfext |-> Extends("selfext") \o << OpS("EmitRaw", "s") >>,
      cycA |-> Extends("cycB"),
      cycB |-> Extends("cycA"),
      twice |-> Extends("base") \o Extends("leaf"),
      inc |-> << OpS("EmitRaw", "i"), LoadConst(Str("child")), OpN("Include", 0),
                 OpS("EmitRaw", "j") >>,
      selfinc |-> << OpS("EmitRaw", "s"), LoadConst(Str("selfinc")), OpN("Include", 0),
                     OpS("EmitRaw", "t") >>,
      withs |-> << Op0("PushWith"), OpS("EmitRaw", "w"), Op0("PopFrame") >>,
      rloop |-> << LoadConst(Tree) >> \o
                RecursiveLoop(1, << OpSN("CallFunction", "loop", 1), Op0("Emit") >>),
      floop |-> << LoadConst(Tree) >> \o RecursiveLoop(1, << Op0("FastRecurse") >>),
      rchain |-> << LoadConst(Chain) >> \o
                 RecursiveLoop(1, << OpSN("CallFunction", "loop", 1), Op0("Emit") >>),
      nested |-> << LoadConst(Chain), OpN("PushLoop", LOOP_FLAG_WITH_LOOP_VAR),
                    OpN("Iterate", 10),
                    OpN("PushLoop", LOOP_FLAG_RECURSIVE + LOOP_FLAG_WITH_LOOP_VAR),
                    OpN("Iterate", 8),
                    OpN("PushLoop", LOOP_FLAG_WITH_LOOP_VAR),
                    Op0("PopFrame"),
                    OpN("Jump", 4),
                    Op0("PopFrame"),
                    OpN("Jump", 2),
                    Op0("PopFrame") >>,
      badbase |-> << OpS("EmitRaw", "<"), OpS("CallBlock", "body"), OpS("EmitRaw", ">") >>,
      badbase_body |-> FailingBody,
      badchild |-> Extends("badbase"),
      badchild_body |-> << OpS("EmitRaw", "["), OpSN("CallFunction", "super", 0),
                           Op0("Emit"), OpS("EmitRaw", "]") >>,
      incbad |-> << OpS("EmitRaw", "i"), LoadConst(Str("badbase")), OpN("Include", 0),
                    OpS("EmitRaw", "j") >>,
      macros |-> MacroDecl(0, "m1", "") \o MacroDecl(7, "m2", "m1")
                 \o MacroDecl(17, "m3", "m2") \o MacroDecl(27, "m4", "m3")
                 \o << OpSN("CallFunction", "m2", 0), Op0("Emit"),
                       OpSN("CallFunction", "m4", 0), Op0("Emit") >>,
      lastsuper |-> << OpS("CallBlock", "body") >>,
      lastsuper_body |-> << OpS("EmitRaw", "q"), Op0("FastSuper") >>,
      topsuper |-> << OpS("EmitRaw", "t"), OpSN("CallFunction", "super", 0), Op0("Emit") >>,
      twosuper |-> Extends("base"),
      twosuper_body |-> << Op0("FastSuper"), OpS("EmitRaw", "+"), Op0("FastSuper") >>,
      incmiss |-> << OpS("EmitRaw", "m") >> \o IncludeOf(Str("absent"), FALSE),
      outer |-> << OpS("EmitRaw", "o") >> \o IncludeOf(Str("incmiss"), TRUE),
      incign |-> IncludeOf(Str("absent"), TRUE),
      incempty |-> IncludeOf(List(<<>>), FALSE),
      incemptyign |-> IncludeOf(List(<<>>), TRUE),
      inclist |-> IncludeOf(List(<<Str("absent"), Str("leaf"), Str("base")>>), FALSE),
      incnone |-> IncludeOf(List(<<Str("absent"), Str("absent2")>>), FALSE),
      incnoneign |-> IncludeOf(List(<<Str("absent"), Str("absent2")>>), TRUE),
      strictif |-> << OpS("Lookup", "item"), OpN("JumpIfFalse", 3),
                      OpS("EmitRaw", "y"), OpS("EmitRaw", "z") >>,
      strictand |-> << OpS("Lookup", "item"), OpN("JumpIfFalseOrPop", 3),
                       LoadConst(Str("v")), Op0("Emit") >>,
      strictor |-> << OpS("Lookup", "item"), OpN("JumpIfTrueOrPop", 3),
                      LoadConst(Str("v")), Op0("Emit") >>,
      forelse0 |-> ForElse(<<>>),
      forelse2 |-> ForElse(<<Str("a"), Str("b")>>),
      dni |-> << LoadConst(List(<<Str("a")>>)), OpN("PushLoop", LOOP_FLAG_WITH_LOOP_VAR),
                 Op0("PushDidNotIterate"), Op0("Emit"), Op0("PopFrame") >>,
      noloop |-> << LoadConst(Tree), OpSN("CallFunction", "loop", 1), Op0("Emit") >>,
      flatloop |-> << LoadConst(Tree), OpN("PushLoop", LOOP_FLAG_WITH_LOOP_VAR),
                      OpN("Iterate", 5), Op0("FastRecurse"), OpN("Jump", 2),
                      Op0("PopFrame") >>,
      unpack3 |-> << LoadConst(Str("z")), LoadConst(Str("a")), LoadConst(Str("b")),
                     LoadConst(Str("c")), OpN("BuildList", 3), OpN("UnpackList", 3),
                     Op0("Emit"), Op0("Emit"), Op0("Emit"), Op0("Emit") >>,
      unpack2 |-> << LoadConst(Str("a")), LoadConst(Str("b")), LoadConst(Number(2)),
                     OpN("BuildList", -1), OpN("UnpackList", 2),
                     OpS("StoreLocal", "m1"), OpS("StoreLocal", "m2") >>,
      unpack1 |-> << LoadConst(List(<<Str("a")>>)), OpN("UnpackList", 1), Op0("Emit") >>,
      unpackshort |-> << LoadConst(List(<<Str("a"), Str("b")>>)), OpN("UnpackList", 3),
                         Op0("Emit") >>,
      unpacklong |-> << LoadConst(List(<<Str("a"), Str("b")>>)), OpN("UnpackList", 1),
                        Op0("Emit") >>,
      unpackstr |-> << LoadConst(Str("ab")), OpN("UnpackList", 2), Op0("Emit") >>,
      incbroken |-> IncludeOf(List(<<Str("absent"), Str("broken"), Str("leaf")>>), FALSE),
      incbrokenign |-> IncludeOf(List(<<Str("broken"), Str("leaf")>>), TRUE),
      incbroken1 |-> IncludeOf(Str("broken"), TRUE),
      incnonstr |-> IncludeOf(List(<<Str("absent"), Bool(TRUE), Str("leaf")>>), FALSE),
      incnonstrign |-> IncludeOf(List(<<Number(0), Str("leaf")>>), TRUE),
      incsuper |-> << OpS("EmitRaw", "<"), OpS("CallBlock", "body") >>,
      incsuper_body |-> << OpS("EmitRaw", "b"), LoadConst(Str("topsuper")),
                           OpN("Include", 0) >>,
      filtbase |-> << LoadConst(Str("v")), OpSNM("ApplyFilter", "lower", 1, 0),
                      Op0("Emit"),
                      LoadConst(Str("w")), OpSNM("ApplyFilter", "lower", 1, 0),
                      OpSNM("ApplyFilter", "upper", 1, 1), Op0("Emit"),
                      OpS("Lookup", "item"), OpSNM("PerformTest", "undefined", 1, 0),
                      Op0("Emit") >>,
      filtchild |-> Extends("filtbase") \o
                    << LoadConst(Str("c")), OpSNM("ApplyFilter", "upper", 1, 0),
                       OpSNM("PerformTest", "defined", 1, 0), Op0("Emit") >>,
      filtedge |-> << LoadConst(Str("v")), OpSNM("ApplyFilter", "upper", 1, 49),
                      OpSNM("ApplyFilter", "upper", 1, 49),
                      OpSNM("ApplyFilter", "lower", 1, 255),
                      OpSNM("ApplyFilter", "upper", 1, 255),
                      OpSNM("PerformTest", "defined", 1, 49),
                      OpSNM("PerformTest", "undefined", 1, 255),
                      OpSNM("PerformTest", "defined", 1, 255), Op0("Emit") >>,
      filtover |-> << LoadConst(Str("v")), OpSNM("ApplyFilter", "upper", 1, 50),
                      Op0("Emit") >>,
      testover |-> << LoadConst(Str("v")), OpSNM("PerformTest", "defined", 1, 254),
                      Op0("Emit") >>,
      filtmiss |-> << LoadConst(Str("v")), OpSNM("ApplyFilter", "nofilter", 1, 200),
                      Op0("Emit") >>,
      testmiss |-> << LoadConst(Str("v")), OpSNM("PerformTest", "notest", 1, 1),
                      Op0("Emit") >>,
      mapdup |-> << LoadConst(Str("z")),
                    LoadConst(Str("k")), LoadConst(Str("first")),
                    LoadConst(Str("j")), LoadConst(Str("other")),
                    LoadConst(Str("k")), LoadConst(Str("last")),
                    OpN("BuildMap", 3), Op0("Emit"), Op0("Emit") >>,
      kwdup |-> << LoadConst(Str("k")), LoadConst(Str("first")),
                   LoadConst(Str("k")), LoadConst(Str("last")),
                   OpN("BuildKwargs", 2), Op0("Emit"),
                   OpN("BuildMap", 0), OpN("BuildKwargs", 0) >>,
      escapes |-> AutoEscapeOf(LoadConst(Str("none")),
                    AutoEscapeOf(LoadConst(Bool(TRUE)),
                      AutoEscapeOf(LoadConst(Str("html")),
                        AutoEscapeOf(LoadConst(Bool(FALSE)), <<>>)))),
      esctrue |-> AutoEscapeOf(LoadConst(Bool(TRUE)), << OpS("EmitRaw", "e") >>),
      escxml |-> AutoEscapeOf(LoadConst(Str("xml")), << OpS("EmitRaw", "e") >>),
      escnumber |-> AutoEscapeOf(LoadConst(Number(0)), << OpS("EmitRaw", "e") >>),
      esclist |-> AutoEscapeOf(LoadConst(List(<<Str("html")>>)), << OpS("EmitRaw", "e") >>),
      escundef |-> AutoEscapeOf(OpS("Lookup", "item"), << OpS("EmitRaw", "e") >>)
    ]

\* The templates the environment resolves by name: the instructions, the
\* blocks (block name -> instructions) and the initial auto-escape mode.
Templates ==
    [ leaf |-> [instructions |-> "leaf", blocks |-> <<>>, auto_escape |-> "None"],
      base |-> [instructions |-> "base", blocks |-> [body |-> "base_body"],
                auto_escape |-> "Html"],
      child |-> [instructions |-> "child", blocks |-> [body |-> "child_body"],
                 auto_escape |-> "Html"],
      grand |-> [instructions |-> "grand", blocks |-> [body |-> "grand_body"],
                 auto_escape |-> "Html"],
      selfext |-> [instructions |-> "selfext", blocks |-> <<>>, auto_escape |-> "None"],
      cycA |-> [instructions |-> "cycA", blocks |-> <<>>, auto_escape |-> "None"],
      cycB |-> [instructions |-> "cycB", blocks |-> <<>>, auto_escape |-> "None"],
      twice |-> [instructions |-> "twice", blocks |-> <<>>, auto_escape |-> "None"],
      inc |-> [instructions |-> "inc", blocks |-> <<>>, auto_escape |-> "None"],
      selfinc |-> [instructions |-> "selfinc", blocks |-> <<>>, auto_escape |-> "None"],
      withs |-> [instructions |-> "withs", blocks |-> <<>>, auto_escape |-> "None"],
      rloop |-> [instructions |-> "rloop", blocks |-> <<>>, auto_escape |-> "None"],
      floop |-> [instructions |-> "floop", blocks |-> <<>>, auto_escape |-> "None"],
      rchain |-> [instructions |-> "rchain", blocks |-> <<>>, auto_escape |-> "None"],
      nested |-> [instructions |-> "nested", blocks |-> <<>>, auto_escape |-> "None"],
      badbase |-> [instructions |-> "badbase", blocks |-> [body |-> "badbase_body"],
                   auto_escape |-> "Html"],
      badchild |-> [instructions |-> "badchild", blocks |-> [body |-> "badchild_body"],
                    auto_escape |-> "Html"],
      incbad |-> [instructions |-> "incbad", blocks |-> <<>>, auto_escape |-> "None"],
      macros |-> [instructions |-> "macros", blocks |-> <<>>, auto_escape |-> "None"],
      lastsuper |-> [instructions |-> "lastsuper", blocks |-> [body |-> "lastsuper_body"],
                     auto_escape |-> "Html"],
      topsuper |-> [instructions |-> "topsuper", blocks |-> <<>>, auto_escape |-> "None"],
      twosuper |-> [instructions |-> "twosuper", blocks |-> [body |-> "twosuper_body"],
                    auto_escape |-> "Html"],
      incmiss |-> [instructions |-> "incmiss", blocks |-> <<>>, auto_escape |-> "None"],
      outer |-> [instructions |-> "outer", blocks |-> <<>>, auto_escape |-> "None"],
      incign |-> [instructions |-> "incign", blocks |-> <<>>, auto_escape |-> "None"],
      incempty |-> [instructions |-> "incempty", blocks |-> <<>>, auto_escape |-> "None"],
      incemptyign |-> [instructions |-> "incemptyign", blocks |-> <<>>,
                       auto_escape |-> "None"],
      inclist |-> [instructions |-> "inclist", blocks |-> <<>>, auto_escape |-> "None"],
      incnone |-> [instructions |-> "incnone", blocks |-> <<>>, auto_escape |-> "None"],
      incnoneign |-> [instructions |-> "incnoneign", blocks |-> <<>>,
                      auto_escape |-> "None"],
      strictif |-> [instructions |-> "strictif", blocks |-> <<>>, auto_escape |-> "None"],
      strictand |-> [instructions |-> "strictand", blocks |-> <<>>, auto_escape |-> "None"],
      strictor |-> [instructions |-> "strictor", blocks |-> <<>>, auto_escape |-> "None"],
      forelse0 |-> [instructions |-> "forelse0", blocks |-> <<>>, auto_escape |-> "None"],
      forelse2 |-> [instructions |-> "forelse2", blocks |-> <<>>, auto_escape |-> "None"],
      dni |-> [instructions |-> "dni", blocks |-> <<>>, auto_escape |-> "None"],
      noloop |-> [instructions |-> "noloop", blocks |-> <<>>, auto_escape |-> "None"],
      flatloop |-> [instructions |-> "flatloop", blocks |-> <<>>, auto_escape |-> "None"],
      unpack3 |-> [instructions |-> "unpack3", blocks |-> <<>>, auto_escape |-> "None"],
      unpack2 |-> [instructions |-> "unpack2", blocks |-> <<>>, auto_escape |-> "None"],
      unpack1 |-> [instructions |-> "unpack1", blocks |-> <<>>, auto_escape |-> "None"],
      unpackshort |-> [instructions |-> "unpackshort", blocks |-> <<>>,
                       auto_escape |-> "None"],
      unpacklong |-> [instructions |-> "unpacklong", blocks |-> <<>>,
                      auto_escape |-> "None"],
      unpackstr |-> [instructions |-> "unpackstr", blocks |-> <<>>, auto_escape |-> "None"],
      incbroken |-> [instructions |-> "incbroken", blocks |-> <<>>, auto_escape |-> "None"],
      incbrokenign |-> [instructions |-> "incbrokenign", blocks |-> <<>>,
                        auto_escape |-> "None"],
      incbroken1 |-> [instructions |-> "incbroken1", blocks |-> <<>>, auto_escape |-> "None"],
      incnonstr |-> [instructions |-> "incnonstr", blocks |-> <<>>, auto_escape |-> "None"],
      incnonstrign |-> [instructions |-> "incnonstrign", blocks |-> <<>>,
                        auto_escape |-> "None"],
      incsuper |-> [instructions |-> "incsuper", blocks |-> [body |-> "incsuper_body"],
                    auto_escape |-> "Html"],
      filtbase |-> [instructions |-> "filtbase", blocks |-> <<>>, auto_escape |-> "None"],
      filtchild |-> [instructions |-> "filtchild", blocks |-> <<>>, auto_escape |-> "None"],
      filtedge |-> [instructions |-> "filtedge", blocks |-> <<>>, auto_escape |-> "None"],
      filtover |-> [instructions |-> "filtover", blocks |-> <<>>, auto_escape |-> "None"],
      testover |-> [instructions |-> "testover", blocks |-> <<>>, auto_escape |-> "None"],
      filtmiss |-> [instructions |-> "filtmiss", blocks |-> <<>>, auto_escape |-> "None"],
      testmiss |-> [instructions |-> "testmiss", blocks |-> <<>>, auto_escape |-> "None"],
      mapdup |-> [instructions |-> "mapdup", blocks |-> <<>>, auto_escape |-> "None"],
      kwdup |-> [instructions |-> "kwdup", blocks |-> <<>>, auto_escape |-> "None"],
      escapes |-> [instructions |-> "escapes", blocks |-> <<>>, auto_escape |-> "Json"],
      esctrue |-> [instructions |-> "esctrue", blocks |-> <<>>, auto_escape |-> "None"],
      escxml |-> [instructions |-> "escxml", blocks |-> <<>>, auto_escape |-> "Html"],
      escnumber |-> [instructions |-> "escnumber", blocks |-> <<>>, auto_escape |-> "Html"],
      esclist |-> [instructions |-> "esclist", blocks |-> <<>>, auto_escape |-> "Html"],
      escundef |-> [instructions |-> "escundef", blocks |-> <<>>, auto_escape |-> "Html"]
    ]

TemplateNames == DOMAIN Templates
BlockNames == {"body"}
LocalNames == {"item", "m1", "m2", "m3", "m4"}

\* Instructions::name(): the template an instruction sequence belongs to
InstructionsName ==
    [ i \in DOMAIN Code |->
        CASE i = "base_body" -> "base"
          [] i = "child_body" -> "child"
          [] i = "grand_body" -> "grand"
          [] i = "badbase_body" -> "badbase"
          [] i = "badchild_body" -> "badchild"
          [] i = "lastsuper_body" -> "lastsuper"
          [] i = "twosuper_body" -> "twosuper"
          [] i = "incsuper_body" -> "incsuper"
          [] OTHER -> i ]

----------------------------------------------------------------------------
(* Context: the frame stack and the depth counter (vm/context.rs)          *)

NoJump == [set |-> FALSE, target |-> 0, capture |-> FALSE]
SomeJump(target, capture) == [set |-> TRUE, target |-> target, capture |-> capture]

NoLoop == [present |-> FALSE]

NoLocals == [n \in LocalNames |-> [t |-> "missing", v |-> <<>>]]

\* Frame::new(ctx) / Frame::default()
Frame(ctx) == [locals |-> NoLocals, ctx |-> ctx, current_loop |-> NoLoop]

\* Context::new_with_frame
new_with_frame(frame, limit) ==
    [stack |-> <<frame>>, outer_stack_depth |-> 0, recursion_limit |-> limit,
     closure |-> 0]

\* Context::depth
depth(ctx) == ctx.outer_stack_depth + Len(ctx.stack)

\* Context::push_frame: fails with RecursionLimit when depth + 1 > limit
push_frame(ctx, frame) ==
    IF depth(ctx) + 1 > ctx.recursion_limit
    THEN [ok |-> FALSE, ctx |-> ctx]
    ELSE [ok |-> TRUE, ctx |-> [ctx EXCEPT !.stack = Append(@, frame)]]

\* Context::pop_frame: the context without its top frame
pop_frame(ctx) == [ctx EXCEPT !.stack = SubSeq(@, 1, Len(@) - 1)]

\* the frame Context::pop_frame returns
top_frame(ctx) == ctx.stack[Len(ctx.stack)]

\* Context::incr_depth: fails with RecursionLimit when depth + delta > limit
incr_depth(ctx, delta) ==
    IF depth(ctx) + delta > ctx.recursion_limit
    THEN [ok |-> FALSE, ctx |-> ctx]
    ELSE [ok |-> TRUE, ctx |-> [ctx EXCEPT !.outer_stack_depth = @ + delta]]

\* Context::decr_depth
decr_depth(ctx, delta) == [ctx EXCEPT !.outer_stack_depth = @ - delta]

\* Context::store: writes into the top frame's locals
store(ctx, name, value) ==
    [ctx EXCEPT !.stack[Len(ctx.stack)].locals[name] = value]

\* index of the nearest frame that carries a loop, 0 when there is none
RECURSIVE LoopFrameIndex(_, _)
LoopFrameIndex(stack, i) ==
    IF i = 0 THEN 0
    ELSE IF stack[i].current_loop.present THEN i
    ELSE LoopFrameIndex(stack, i - 1)

\* Context::current_loop
has_current_loop(ctx) == LoopFrameIndex(ctx.stack, Len(ctx.stack)) > 0
current_loop(ctx) == ctx.stack[LoopFrameIndex(ctx.stack, Len(ctx.stack))].current_loop

\* the context with its current loop replaced by l
with_current_loop(ctx, l) ==
    [ctx EXCEPT !.stack[LoopFrameIndex(ctx.stack, Len(ctx.stack))].current_loop = l]

\* what one frame binds to name: its locals, the loop variable, then the
\* attributes of the value behind the frame
FrameLookup(frame, name, heap) ==
    IF name \in LocalNames /\ frame.locals[name].t # "missing" THEN frame.locals[name]
    ELSE IF name = "loop" /\ frame.current_loop.present
            /\ frame.current_loop.with_loop_var
         THEN [t |-> "loop", v |-> frame.current_loop.object.depth]
    ELSE IF frame.ctx.t = "closure" /\ name \in LocalNames
            /\ heap[frame.ctx.v][name].t # "missing"
         THEN heap[frame.ctx.v][name]
    ELSE [t |-> "missing", v |-> <<>>]

\* Context::lookup: searches the frames top-down, "missing" when unbound
RECURSIVE LookupFrom(_, _, _, _)
LookupFrom(stack, i, name, heap) ==
    IF i = 0 THEN [t |-> "missing", v |-> <<>>]
    ELSE LET hit == FrameLookup(stack[i], name, heap)
         IN  IF hit.t # "missing" THEN hit ELSE LookupFrom(stack, i - 1, name, heap)

lookup(ctx, name, heap) == LookupFrom(ctx.stack, Len(ctx.stack), name, heap)

----------------------------------------------------------------------------
(* Output: the sink and the stack of capture buffers (output.rs)           *)

NewOutput == [capture_stack |-> <<>>, sink |-> <<>>]

\* Output::begin_capture; `by` records which code opened the capture
begin_capture(o, mode, by) ==
    [o EXCEPT !.capture_stack = Append(@, [mode |-> mode, buf |-> <<>>, by |-> by])]

\* the capture Output::end_capture closes: the most recent one
top_capture(o) == o.capture_stack[Len(o.capture_stack)]

\* Output::end_capture: the output without its most recent capture
end_capture(o) ==
    [o EXCEPT !.capture_stack = SubSeq(@, 1, Len(@) - 1)]

\* the value Output::end_capture returns
captured_value(o) ==
    IF top_capture(o).mode = "Capture" THEN Text(top_capture(o).buf) ELSE Undefined

\* Output::is_discarding: some enclosing capture has mode Discard
is_discarding(o) ==
    \E i \in 1..Len(o.capture_stack) : o.capture_stack[i].mode = "Discard"

\* Output::write_str: into the most recent capture, dropped in Discard mode
write_str(o, toks) ==
    IF o.capture_stack = <<>> THEN [o EXCEPT !.sink = @ \o toks]
    ELSE IF top_capture(o).mode = "Discard" THEN o
    ELSE [o EXCEPT !.capture_stack[Len(o.capture_stack)].buf = @ \o toks]

----------------------------------------------------------------------------
(* BlockStack (vm/state.rs)                                                *)

\* BlockStack::default(): no definition yet; a block table maps every block
\* name to a BlockStack and a name is a key of the table iff its stack is
\* not empty
NoBlockStack == [instructions |-> <<>>, depth |-> 0]

\* BlockStack::new
NewBlockStack(instr) == [instructions |-> <<instr>>, depth |-> 0]

\* BlockStack::instructions: the definition at the current depth
bs_instructions(bs) == bs.instructions[bs.depth + 1]

\* BlockStack::push: descends to the parent definition, false if none
bs_can_push(bs) == bs.depth + 1 < Len(bs.instructions)
bs_push(bs) == [bs EXCEPT !.depth = @ + 1]

\* BlockStack::pop
bs_pop(bs) == [bs EXCEPT !.depth = @ - 1]

\* BlockStack::append_instructions: a new parent beneath the existing ones
append_instructions(bs, instr) == [bs EXCEPT !.instructions = Append(@, instr)]

has_block(blocks, name) == name \in BlockNames /\ blocks[name].instructions # <<>>

----------------------------------------------------------------------------
(* Errors and results                                                      *)

NoError == [kind |-> "", loc |-> <<>>, source |-> <<>>]

\* Error::new(kind, ..)
Error(kind) == [kind |-> kind, loc |-> <<>>, source |-> <<>>]

\* Error::with_source
with_source(err, source) == [err EXCEPT !.source = <<source>>]

\* process_err: attach the current instructions' name and the position of
\* pc unless the error already carries a location
process_err(err, pc, st) ==
    IF err.loc = <<>>
    THEN [err EXCEPT !.loc = <<InstructionsName[st.instructions], st.instructions, pc>>]
    ELSE err

RvRunning == [st |-> "running", has_value |-> FALSE, value |-> Undefined, err |-> NoError]
RvErr(err) == [st |-> "err", has_value |-> FALSE, value |-> Undefined, err |-> err]

\* Ok(stack.try_pop())
RvOk(stack) ==
    [st |-> "ok", has_value |-> stack # <<>>,
     value |-> IF stack = <<>> THEN Undefined ELSE stack[Len(stack)], err |-> NoError]

----------------------------------------------------------------------------
(* State and activations                                                   *)

\* prepare_blocks: one BlockStack per block of the template
prepare_blocks(blocks) ==
    [n \in BlockNames |->
        IF n \in DOMAIN blocks THEN NewBlockStack(blocks[n]) ELSE NoBlockStack]

\* State::new as called by Vm::eval
NewState(limit, tmpl, ub) ==
    [ctx |-> new_with_frame(Frame(RootValue), limit),
     undefined_behavior |-> ub,
     current_block |-> "",
     auto_escape |-> Templates[tmpl].auto_escape,
     instructions |-> Templates[tmpl].instructions,
     blocks |-> prepare_blocks(Templates[tmpl].blocks),
     loaded_templates |-> {},
     macros |-> <<>>]

\* the locals of the function that called eval_state, alive across the call
NoCaller ==
    [kind |-> "top", name |-> "", capture |-> FALSE, argc |-> 0,
     old_instructions |-> "", old_block |-> "", old_escape |-> "",
     old_blocks |-> <<>>, old_loaded_templates |-> {}, old_closure |-> 0,
     tmpl |-> "", caller_state |-> <<>>, caller_out |-> <<>>,
     before |-> <<>>]

\* Environment::get_template
get_template(name) ==
    IF name \in TemplateNames THEN [ok |-> TRUE, tmpl |-> name, err |-> NoError]
    ELSE IF name = "broken" THEN [ok |-> FALSE, tmpl |-> "", err |-> Error("SyntaxError")]
    ELSE [ok |-> FALSE, tmpl |-> "", err |-> Error("TemplateNotFound")]

\* what the evaluation looked like when eval_impl was entered
EvalEntry(st, o, h) ==
    [frames |-> Len(st.ctx.stack), depth |-> depth(st.ctx),
     captures |-> Len(o.capture_stack), begins |-> h.begins, ends |-> h.ends]

\* [None; MAX_LOCALS]: a cache of callables with every slot empty
NoneLoaded == [i \in 0..(MAX_LOCALS - 1) |-> ""]

\* the locals of eval_impl at its entry (lines 185-196)
Activation(pc, stack, st, o, h, caller) ==
    [pc |-> pc, stack |-> stack,
     initial_auto_escape |-> st.auto_escape,
     auto_escape_stack |-> <<>>,
     next_loop_recursion_jump |-> NoJump,
     loaded_filters |-> NoneLoaded,
     loaded_tests |-> NoneLoaded,
     switched |-> <<>>,
     parent_instructions |-> "",
     caller |-> caller,
     entry |-> EvalEntry(st, o, h)]

Snapshot(st, o) == [state |-> st, out |-> o]

\* the last call of call_block, perform_super, perform_include or of a macro
\* that returned: whether it returned Ok, whether it got as far as
\* evaluating instructions, and the State and Output before and after it
NoReport ==
    [kind |-> "none", ok |-> TRUE, evaluated |-> FALSE, before |-> <<>>, after |-> <<>>]
Report(kind, ok, evaluated, before, st, o) ==
    [kind |-> kind, ok |-> ok, evaluated |-> evaluated, before |-> before,
     after |-> Snapshot(st, o)]

NoHist ==
    [begins |-> 0, ends |-> 0, writes |-> 0, last_end |-> <<>>, sites |-> <<>>,
     built |-> [pc |-> -1, n |-> 0, stack |-> <<>>]]

\* one more loop recursion whose return is pending: where it returns to,
\* whether it captures and the operand stack it left behind the argument
Recursed(h, return, capture, stack) ==
    [h EXCEPT !.sites = Append(@, [return |-> return, capture |-> capture,
                                    stack |-> stack])]

\* the most recent loop recursion has returned
Resumed(h) == [h EXCEPT !.sites = SubSeq(@, 1, Len(@) - 1)]

\* one more begin_capture
Begun(h) == [h EXCEPT !.begins = @ + 1]

\* one more end_capture, by the code `site`, of the capture `cap`
Ended(h, cap, site) == [h EXCEPT !.ends = @ + 1, !.last_end = <<cap.by, site>>]

Top == calls[Len(calls)]
Running == rv.st = "running"
Instrs == Code[state.instructions]
AtEnd == Running /\ Top.pc >= Len(Instrs)
Ins == Instrs[Top.pc + 1]
AtInstr(op) == Running /\ Top.pc < Len(Instrs) /\ Ins.op = op

Push(stk, v) == Append(stk, v)
Pop(stk) == SubSeq(stk, 1, Len(stk) - 1)
Peek(stk) == stk[Len(stk)]
DropTop(stk, n) == SubSeq(stk, 1, Len(stk) - n)

\* Vec::reverse
Reverse(s) == [i \in 1..Len(s) |-> s[Len(s) - i + 1]]

\* Stack::reverse_top: the last n entries of the stack in reverse order
reverse_top(stk, n) ==
    DropTop(stk, n) \o Reverse(SubSeq(stk, Len(stk) - n + 1, Len(stk)))

SetTop(a) == [calls EXCEPT ![Len(calls)] = a]
PushCall(cs, a) == Append(cs, a)
PopCall == SubSeq(calls, 1, Len(calls) - 1)
Caller == calls[Len(calls) - 1]

\* the dispatch loop moves on to the next instruction (line 693)
Advance(a) == [a EXCEPT !.pc = @ + 1]

----------------------------------------------------------------------------
(* Vm::eval                                                                *)

Init ==
    /\ recursion_limit \in 1..MaxLimit
    /\ root \in TemplateNames
    /\ \E ub \in UndefinedBehaviors : state = NewState(recursion_limit, root, ub)
    /\ out = NewOutput
    /\ calls = << Activation(0, <<>>, state, out, NoHist, NoCaller) >>
    /\ rv = RvRunning
    /\ closures = <<>>
    /\ report = NoReport
    /\ hist = NoHist

----------------------------------------------------------------------------
(* The dispatch loop: end of the instructions (lines 217-241)              *)

\* no instruction at pc and no parent stashed away: break, Ok(stack.try_pop())
EndOfInstructions ==
    /\ AtEnd
    /\ Top.parent_instructions = ""
    /\ rv' = RvOk(Top.stack)
    /\ UNCHANGED <<state, out, calls, closures, recursion_limit, root, report, hist>>

\* parent_swap that leaves the loaded filters and tests in their slots
parent_swap_keep_loaded(st, o, a) ==
    [state |-> [st EXCEPT !.instructions = a.parent_instructions],
     out |-> end_capture(o),
     top |-> [a EXCEPT !.parent_instructions = "", !.pc = 0]]

\* the parent switch of eval_impl: the state, output and activation after it
parent_swap(st, o, a) ==
    [state |-> [st EXCEPT !.instructions = a.parent_instructions],
     out |-> end_capture(o),
     top |-> [a EXCEPT !.parent_instructions = "", !.pc = 0,
                       !.loaded_filters = NoneLoaded,
                       !.loaded_tests = NoneLoaded]]

\* no instruction at pc and a parent stashed away by LoadBlocks: end the
\* capture and restart at pc 0 on the parent instructions
ExtendsSwitch ==
    /\ AtEnd
    /\ Top.parent_instructions # ""
    /\ LET r == parent_swap(state, out, Top)
       IN  /\ state' = r.state
           /\ out' = r.out
           /\ calls' = SetTop([r.top EXCEPT
                            !.switched = Append(@, InstructionsName[r.state.instructions])])
           /\ hist' = IF Len(r.out.capture_stack) < Len(out.capture_stack)
                      THEN Ended(hist, top_capture(out), "switch") ELSE hist
    /\ UNCHANGED <<rv, closures, recursion_limit, root, report>>

----------------------------------------------------------------------------
(* Opcodes                                                                 *)

EmitRaw ==
    /\ AtInstr("EmitRaw")
    /\ out' = write_str(out, <<Ins.s>>)
    /\ hist' = [hist EXCEPT !.writes = @ + 1]
    /\ calls' = SetTop(Advance(Top))
    /\ UNCHANGED <<state, rv, closures, recursion_limit, root, report>>

\* bail!: process_err, then return Err from eval_impl (lines 265-271)
Bail(err) ==
    /\ rv' = RvErr(process_err(err, Top.pc, state))
    /\ UNCHANGED calls

\* Emit (lines 311-313); formatting undefined is an error under Strict
Emit ==
    /\ AtInstr("Emit")
    /\ IF IsUndefined(Peek(Top.stack)) /\ state.undefined_behavior = "Strict"
       THEN /\ Bail(Error("UndefinedError"))
            /\ UNCHANGED <<out, hist>>
       ELSE /\ out' = write_str(out, Format(Peek(Top.stack)))
            /\ hist' = [hist EXCEPT !.writes = @ + 1]
            /\ calls' = SetTop(Advance([Top EXCEPT !.stack = Pop(@)]))
            /\ UNCHANGED rv
    /\ UNCHANGED <<state, closures, recursion_limit, root, report>>

StoreLocal ==
    /\ AtInstr("StoreLocal")
    /\ state' = [state EXCEPT !.ctx = store(@, Ins.s, Peek(Top.stack))]
    /\ calls' = SetTop(Advance([Top EXCEPT !.stack = Pop(@)]))
    /\ UNCHANGED <<out, rv, closures, recursion_limit, root, report, hist>>

Lookup ==
    /\ AtInstr("Lookup")
    /\ LET hit == lookup(state.ctx, Ins.s, closures)
           val == IF hit.t = "missing" THEN Undefined ELSE hit
       IN  calls' = SetTop(Advance([Top EXCEPT !.stack = Push(@, val)]))
    /\ UNCHANGED <<state, out, rv, closures, recursion_limit, root, report, hist>>

LoadConstant ==
    /\ AtInstr("LoadConst")
    /\ calls' = SetTop(Advance([Top EXCEPT !.stack = Push(@, Ins.c)]))
    /\ UNCHANGED <<state, out, rv, closures, recursion_limit, root, report, hist>>

Jump ==
    /\ AtInstr("Jump")
    /\ calls' = SetTop([Top EXCEPT !.pc = Ins.n])
    /\ UNCHANGED <<state, out, rv, closures, recursion_limit, root, report, hist>>

PushWith ==
    /\ AtInstr("PushWith")
    /\ LET r == push_frame(state.ctx, Frame(Undefined))
       IN  IF r.ok
           THEN /\ state' = [state EXCEPT !.ctx = r.ctx]
                /\ calls' = SetTop(Advance(Top))
                /\ UNCHANGED rv
           ELSE /\ Bail(Error("RecursionLimit"))
                /\ UNCHANGED state
    /\ UNCHANGED <<out, closures, recursion_limit, root, report, hist>>

\* the recursion jump the frame PopFrame is about to pop carries
\* (lines 435-436)
pending_jump(st) ==
    IF top_frame(st.ctx).current_loop.present
    THEN top_frame(st.ctx).current_loop.current_recursion_jump ELSE NoJump

\* pop_frame_op that resumes a loop(x) call without ending its capture
pop_frame_op_no_end(st, o, a) ==
    LET frame == top_frame(st.ctx)
        st2 == [st EXCEPT !.ctx = pop_frame(@)]
        jump == IF frame.current_loop.present
                THEN frame.current_loop.current_recursion_jump ELSE NoJump
    IN  IF jump.set
        THEN [state |-> st2, out |-> o,
              top |-> [a EXCEPT !.pc = jump.target,
                                !.stack = IF jump.capture THEN Push(@, Undefined) ELSE @]]
        ELSE [state |-> st2, out |-> o, top |-> Advance(a)]

\* PopFrame (lines 434-445): the state, output and activation after it
pop_frame_op(st, o, a) ==
    LET frame == top_frame(st.ctx)
        st2 == [st EXCEPT !.ctx = pop_frame(@)]
        jump == IF frame.current_loop.present
                THEN frame.current_loop.current_recursion_jump ELSE NoJump
    IN  IF jump.set
        THEN IF jump.capture
             THEN [state |-> st2, out |-> end_capture(o),
                   top |-> [a EXCEPT !.pc = jump.target,
                                     !.stack = Push(@, captured_value(o))]]
             ELSE [state |-> st2, out |-> o, top |-> [a EXCEPT !.pc = jump.target]]
        ELSE [state |-> st2, out |-> o, top |-> Advance(a)]

PopFrame ==
    /\ AtInstr("PopFrame")
    /\ LET r == pop_frame_op(state, out, Top)
       IN  /\ state' = r.state
           /\ out' = r.out
           /\ calls' = SetTop(r.top)
           /\ hist' = LET h == IF Len(r.out.capture_stack) < Len(out.capture_stack)
                                THEN Ended(hist, top_capture(out), "PopFrame") ELSE hist
                      IN  IF pending_jump(state).set THEN Resumed(h) ELSE h
    /\ UNCHANGED <<rv, closures, recursion_limit, root, report>>

NoneValue == [t |-> "none", v |-> <<>>]

\* Iterator::next on the items that are left
IterNext(items) == IF items = <<>> THEN NoneValue ELSE items[1]
IterRest(items) == IF items = <<>> THEN <<>> ELSE Tail(items)

\* UndefinedBehavior::try_iter: undefined iterates as empty unless Strict
try_iter(ub, v) ==
    CASE v.t = "seq" -> [ok |-> TRUE, items |-> v.v, err |-> NoError]
      [] v.t = "undefined" /\ ub # "Strict" -> [ok |-> TRUE, items |-> <<>>, err |-> NoError]
      [] v.t = "undefined" -> [ok |-> FALSE, items |-> <<>>, err |-> Error("UndefinedError")]
      [] OTHER -> [ok |-> FALSE, items |-> <<>>, err |-> Error("InvalidOperation")]

\* new_loop that gives every loop the depth 0
new_loop_flat(ctx, items, flags, pc, current_recursion_jump) ==
    [present |-> TRUE,
     with_loop_var |-> (flags \div LOOP_FLAG_WITH_LOOP_VAR) % 2 = 1,
     recurse_jump_target |-> IF (flags \div LOOP_FLAG_RECURSIVE) % 2 = 1 THEN pc ELSE -1,
     current_recursion_jump |-> current_recursion_jump,
     iterator |-> IterRest(items),
     iterated |-> 0,
     yields |-> items,
     object |-> [idx |-> UsizeModulus - 1,
                 len |-> Len(items),
                 depth |-> 0,
                 value_triple |-> <<NoneValue, NoneValue, IterNext(items)>>]]

\* the LoopState push_loop builds (lines 941-966)
new_loop(ctx, items, flags, pc, current_recursion_jump) ==
    [present |-> TRUE,
     with_loop_var |-> (flags \div LOOP_FLAG_WITH_LOOP_VAR) % 2 = 1,
     recurse_jump_target |-> IF (flags \div LOOP_FLAG_RECURSIVE) % 2 = 1 THEN pc ELSE -1,
     current_recursion_jump |-> current_recursion_jump,
     iterator |-> IterRest(items),
     iterated |-> 0,
     yields |-> items,
     object |-> [idx |-> UsizeModulus - 1,
                 len |-> Len(items),
                 depth |-> IF has_current_loop(ctx)
                              /\ current_loop(ctx).recurse_jump_target # -1
                           THEN current_loop(ctx).object.depth + 1 ELSE 0,
                 value_triple |-> <<NoneValue, NoneValue, IterNext(items)>>]]

\* push_loop (lines 927-970)
push_loop(st, iterable, flags, pc, current_recursion_jump) ==
    LET it == try_iter(st.undefined_behavior, iterable)
        frame == [Frame(Undefined) EXCEPT
                    !.current_loop = new_loop(st.ctx, it.items, flags, pc,
                                              current_recursion_jump)]
        r == push_frame(st.ctx, frame)
    IN  IF ~it.ok THEN [ok |-> FALSE, err |-> it.err, state |-> st]
        ELSE IF ~r.ok THEN [ok |-> FALSE, err |-> Error("RecursionLimit"), state |-> st]
        ELSE [ok |-> TRUE, err |-> NoError, state |-> [st EXCEPT !.ctx = r.ctx]]

PushLoop ==
    /\ AtInstr("PushLoop")
    /\ LET r == push_loop(state, Peek(Top.stack), Ins.n, Top.pc,
                          Top.next_loop_recursion_jump)
       IN  IF r.ok
           THEN /\ state' = r.state
                /\ calls' = SetTop(Advance([Top EXCEPT
                                !.stack = Pop(@),
                                !.next_loop_recursion_jump = NoJump]))
                /\ UNCHANGED rv
           ELSE /\ Bail(r.err)
                /\ UNCHANGED state
    /\ UNCHANGED <<out, closures, recursion_limit, root, report, hist>>

\* iterate that leaves the index where it is
iterate_no_count(l) ==
    [l EXCEPT !.object.value_triple = <<@[2], @[3], IterNext(l.iterator)>>,
              !.iterator = IterRest(@),
              !.iterated = @ + 1]

\* iterate that reads the item from the iterator, as if push_loop had not
\* pulled the first item already
iterate_from_iterator(l) ==
    [l EXCEPT !.object.idx = (@ + 1) % UsizeModulus,
              !.iterated = @ + 1,
              !.object.value_triple =
                  <<@[2], IterNext(l.iterator), IterNext(IterRest(l.iterator))>>,
              !.iterator = IterRest(@)]

\* Iterate (lines 455-472): the loop after the index is incremented and
\* the triple of adjacent items is shifted; `iterated` counts the
\* executions of Iterate on the loop
iterate(l) ==
    [l EXCEPT !.object.idx = (@ + 1) % UsizeModulus,
              !.iterated = @ + 1,
              !.object.value_triple = <<@[2], @[3], IterNext(l.iterator)>>,
              !.iterator = IterRest(@)]

Iterate ==
    /\ AtInstr("Iterate")
    /\ LET l == iterate(current_loop(state.ctx))
           next == l.object.value_triple[2]
       IN  /\ state' = [state EXCEPT !.ctx = with_current_loop(@, l)]
           /\ calls' = IF next.t = "none"
                       THEN SetTop([Top EXCEPT !.pc = Ins.n])
                       ELSE SetTop(Advance([Top EXCEPT !.stack = Push(@, next)]))
    /\ UNCHANGED <<out, rv, closures, recursion_limit, root, report, hist>>

\* did_not_iterate that compares the index with the "before first" value
did_not_iterate_sentinel(l) == Bool(l.object.idx = UsizeModulus - 1)

\* did_not_iterate that always answers false
did_not_iterate_never(l) == Bool(FALSE)

\* the boolean PushDidNotIterate pushes (line 483)
did_not_iterate(l) == Bool(l.object.idx = 0)

\* PushDidNotIterate (lines 481-484)
PushDidNotIterate ==
    /\ AtInstr("PushDidNotIterate")
    /\ calls' = SetTop(Advance([Top EXCEPT
                    !.stack = Push(@, did_not_iterate(current_loop(state.ctx)))]))
    /\ UNCHANGED <<state, out, rv, closures, recursion_limit, root, report, hist>>

\* ok!: return the error as it is, process_err is not called
\* (lines 491, 497, 505)
ReturnErr(err) ==
    /\ rv' = RvErr(err)
    /\ UNCHANGED calls

\* JumpIfFalse (lines 489-494)
JumpIfFalse ==
    /\ AtInstr("JumpIfFalse")
    /\ LET t == is_true(state.undefined_behavior, Peek(Top.stack))
           popped == [Top EXCEPT !.stack = Pop(@)]
       IN  IF ~t.ok THEN ReturnErr(Error("UndefinedError"))
           ELSE /\ calls' = IF ~t.v THEN SetTop([popped EXCEPT !.pc = Ins.n])
                             ELSE SetTop(Advance(popped))
                /\ UNCHANGED rv
    /\ UNCHANGED <<state, out, closures, recursion_limit, root, report, hist>>

\* JumpIfFalseOrPop (lines 496-502)
JumpIfFalseOrPop ==
    /\ AtInstr("JumpIfFalseOrPop")
    /\ LET t == is_true(state.undefined_behavior, Peek(Top.stack))
       IN  IF ~t.ok THEN ReturnErr(Error("UndefinedError"))
           ELSE /\ calls' = IF ~t.v THEN SetTop([Top EXCEPT !.pc = Ins.n])
                             ELSE SetTop(Advance([Top EXCEPT !.stack = Pop(@)]))
                /\ UNCHANGED rv
    /\ UNCHANGED <<state, out, closures, recursion_limit, root, report, hist>>

\* JumpIfTrueOrPop (lines 504-510)
JumpIfTrueOrPop ==
    /\ AtInstr("JumpIfTrueOrPop")
    /\ LET t == is_true(state.undefined_behavior, Peek(Top.stack))
       IN  IF ~t.ok THEN ReturnErr(Error("UndefinedError"))
           ELSE /\ calls' = IF t.v THEN SetTop([Top EXCEPT !.pc = Ins.n])
                             ELSE SetTop(Advance([Top EXCEPT !.stack = Pop(@)]))
                /\ UNCHANGED rv
    /\ UNCHANGED <<state, out, closures, recursion_limit, root, report, hist>>

----------------------------------------------------------------------------
(* Loop recursion (lines 198-212, 828-844)                                 *)

\* prepare_loop_recursion
prepare_loop_recursion(st) ==
    IF has_current_loop(st.ctx) /\ current_loop(st.ctx).recurse_jump_target # -1
    THEN [ok |-> TRUE, target |-> current_loop(st.ctx).recurse_jump_target]
    ELSE [ok |-> FALSE, target |-> 0]

\* recurse_loop that jumps without remembering where to return to
recurse_loop_no_return(o, a, target, capture) ==
    [out |-> IF capture THEN begin_capture(o, "Capture", "loop") ELSE o,
     top |-> [a EXCEPT !.pc = target]]

\* recurse_loop!: the output and activation after a successful recursion
recurse_loop(o, a, target, capture) ==
    [out |-> IF capture THEN begin_capture(o, "Capture", "loop") ELSE o,
     top |-> [a EXCEPT !.next_loop_recursion_jump = SomeJump(a.pc + 1, capture),
                       !.pc = target]]

RecurseLoop(capture) ==
    LET p == prepare_loop_recursion(state)
        r == recurse_loop(out, Top, p.target, capture)
    IN  IF p.ok
        THEN /\ out' = r.out
             /\ calls' = SetTop(r.top)
             /\ hist' = Recursed(IF Len(r.out.capture_stack) > Len(out.capture_stack)
                                 THEN Begun(hist) ELSE hist,
                                 Top.pc + 1, capture, Pop(Top.stack))
             /\ UNCHANGED rv
        ELSE /\ Bail(Error("InvalidOperation"))
             /\ UNCHANGED <<out, hist>>

\* CallFunction("loop", argc) (lines 571-579)
CallFunctionLoop ==
    /\ AtInstr("CallFunction")
    /\ Ins.s = "loop"
    /\ IF Ins.n # 1
       THEN Bail(Error("InvalidOperation")) /\ UNCHANGED <<out, hist>>
       ELSE RecurseLoop(TRUE)
    /\ UNCHANGED <<state, closures, recursion_limit, root, report>>

FastRecurse ==
    /\ AtInstr("FastRecurse")
    /\ RecurseLoop(FALSE)
    /\ UNCHANGED <<state, closures, recursion_limit, root, report>>

----------------------------------------------------------------------------
(* Blocks (lines 512-517, 881-903)                                         *)

\* call_block up to its eval_state call (lines 887-892)
call_block(st, o, name) ==
    IF has_block(st.blocks, name)
    THEN LET st1 == [st EXCEPT !.current_block = name,
                               !.instructions = bs_instructions(st.blocks[name])]
             r == push_frame(st1.ctx, Frame(Undefined))
         IN  [enter |-> r.ok,
              err |-> IF r.ok THEN NoError ELSE Error("RecursionLimit"),
              state |-> [st1 EXCEPT !.ctx = r.ctx],
              caller |-> [NoCaller EXCEPT !.kind = "block", !.name = name,
                              !.old_block = st.current_block,
                              !.old_instructions = st.instructions,
                              !.before = Snapshot(st, o)]]
    ELSE [enter |-> FALSE, err |-> Error("UnknownBlock"), state |-> st,
          caller |-> NoCaller]

\* call_block_return without the pop of the block's frame
call_block_return_no_pop(st, caller) ==
    [st EXCEPT !.instructions = caller.old_instructions,
               !.current_block = caller.old_block]

\* call_block after its eval_state call (lines 893-895)
call_block_return(st, caller) ==
    [st EXCEPT !.ctx = pop_frame(@),
               !.instructions = caller.old_instructions,
               !.current_block = caller.old_block]

\* block_call_enabled that calls the block in every phase
block_call_always(a, o) == TRUE

\* CallBlock calls the block unless a parent is pending or the output is
\* discarded (line 514)
block_call_enabled(a, o) == a.parent_instructions = "" /\ ~is_discarding(o)

CallBlock ==
    /\ AtInstr("CallBlock")
    /\ IF block_call_enabled(Top, out)
       THEN LET r == call_block(state, out, Ins.s)
            IN  /\ state' = r.state
                /\ IF r.enter
                   THEN /\ calls' = PushCall(calls, Activation(0, <<>>, r.state, out, hist,
                                                               r.caller))
                        /\ UNCHANGED <<rv, report>>
                   ELSE /\ rv' = RvErr(r.err)
                        /\ report' = Report("block", FALSE, FALSE, Snapshot(state, out),
                                            r.state, out)
                        /\ UNCHANGED calls
       ELSE /\ calls' = SetTop(Advance(Top))
            /\ UNCHANGED <<state, rv, report>>
    /\ UNCHANGED <<out, closures, recursion_limit, root, hist>>

\* the eval_state call of call_block returned
CallBlockReturn ==
    /\ ~Running
    /\ Top.caller.kind = "block"
    /\ LET st2 == call_block_return(state, Top.caller)
       IN  /\ state' = st2
           /\ report' = Report("block", rv.st = "ok", TRUE, Top.caller.before, st2, out)
    /\ IF rv.st = "ok"
       THEN /\ calls' = [PopCall EXCEPT ![Len(calls) - 1] = Advance(@)]
            /\ rv' = RvRunning
       ELSE /\ calls' = PopCall
            /\ UNCHANGED rv
    /\ UNCHANGED <<out, closures, recursion_limit, root, hist>>

----------------------------------------------------------------------------
(* super (lines 560-569, 610-612, 789-826)                                 *)

\* perform_super up to its eval_state call (lines 795-813)
perform_super(st, o, capture) ==
    LET name == st.current_block
        st1 == [st EXCEPT !.blocks[name] = bs_push(@)]
        o1 == IF capture THEN begin_capture(o, "Capture", "super") ELSE o
        st2 == [st1 EXCEPT !.instructions = bs_instructions(st1.blocks[name])]
        r == push_frame(st2.ctx, Frame(Undefined))
        failed(kind) == [enter |-> FALSE, err |-> Error(kind), state |-> st,
                         out |-> o, caller |-> NoCaller]
    IN  IF name = "" THEN failed("InvalidOperation")
        ELSE IF ~has_block(st.blocks, name) THEN failed("Panic")
        ELSE IF ~bs_can_push(st.blocks[name]) THEN failed("InvalidOperation")
        ELSE [enter |-> r.ok,
              err |-> IF r.ok THEN NoError ELSE Error("RecursionLimit"),
              state |-> [st2 EXCEPT !.ctx = r.ctx],
              out |-> o1,
              caller |-> [NoCaller EXCEPT !.kind = "super", !.name = name,
                              !.capture = capture,
                              !.old_instructions = st.instructions,
                              !.before = Snapshot(st, o)]]

\* perform_super after its eval_state call (lines 814-825): the state, the
\* output and the result
perform_super_return(st, o, caller, res) ==
    LET st2 == [st EXCEPT !.ctx = pop_frame(@),
                          !.instructions = caller.old_instructions,
                          !.blocks[caller.name] = bs_pop(@)]
    IN  IF res.st = "err"
        THEN [state |-> st2, out |-> o,
              rv |-> RvErr(with_source(Error("EvalBlock"), res.err))]
        ELSE IF caller.capture
        THEN [state |-> st2, out |-> end_capture(o), rv |-> RvOk(<<captured_value(o)>>)]
        ELSE [state |-> st2, out |-> o, rv |-> RvOk(<<Undefined>>)]

Super(capture) ==
    LET r == perform_super(state, out, capture)
    IN  /\ state' = r.state
        /\ out' = r.out
        /\ hist' = IF Len(r.out.capture_stack) > Len(out.capture_stack)
                   THEN Begun(hist) ELSE hist
        /\ IF r.enter
           THEN /\ calls' = PushCall(calls, Activation(0, <<>>, r.state, r.out, hist',
                                                        r.caller))
                /\ UNCHANGED <<rv, report>>
           ELSE /\ rv' = RvErr(process_err(r.err, Top.pc, r.state))
                /\ report' = Report("super", FALSE, FALSE, Snapshot(state, out), r.state,
                                    r.out)
                /\ UNCHANGED calls

\* CallFunction("super", argc) (lines 562-569)
CallFunctionSuper ==
    /\ AtInstr("CallFunction")
    /\ Ins.s = "super"
    /\ IF Ins.n # 0
       THEN Bail(Error("InvalidOperation")) /\ UNCHANGED <<state, out, hist, report>>
       ELSE Super(TRUE)
    /\ UNCHANGED <<closures, recursion_limit, root>>

FastSuper ==
    /\ AtInstr("FastSuper")
    /\ Super(FALSE)
    /\ UNCHANGED <<closures, recursion_limit, root>>

\* the eval_state call of perform_super returned
PerformSuperReturn ==
    /\ ~Running
    /\ Top.caller.kind = "super"
    /\ LET r == perform_super_return(state, out, Top.caller, rv)
       IN  /\ state' = r.state
           /\ out' = r.out
           /\ hist' = IF Len(r.out.capture_stack) < Len(out.capture_stack)
                      THEN Ended(hist, top_capture(out), "super") ELSE hist
           /\ report' = Report("super", r.rv.st = "ok", TRUE, Top.caller.before, r.state,
                               r.out)
           /\ IF r.rv.st = "ok"
              THEN /\ calls' = [PopCall EXCEPT ![Len(calls) - 1] =
                                  Advance(IF Top.caller.capture
                                          THEN [@ EXCEPT !.stack = Push(@, r.rv.value)]
                                          ELSE @)]
                   /\ rv' = RvRunning
              ELSE /\ calls' = PopCall
                   /\ rv' = RvErr(process_err(r.rv.err, Caller.pc, r.state))
    /\ UNCHANGED <<closures, recursion_limit, root>>

----------------------------------------------------------------------------
(* extends (lines 640-650, 847-878)                                        *)

\* merge_blocks that puts the parent's definition on top of the child's
merge_blocks_on_top(blocks, new_blocks) ==
    [n \in BlockNames |->
        IF n \in DOMAIN new_blocks
        THEN [blocks[n] EXCEPT !.instructions = <<new_blocks[n]>> \o @]
        ELSE blocks[n]]

\* the blocks of a parent template appended beneath the existing ones
merge_blocks(blocks, new_blocks) ==
    [n \in BlockNames |->
        IF n \in DOMAIN new_blocks THEN append_instructions(blocks[n], new_blocks[n])
        ELSE blocks[n]]

\* already_loaded that never finds the name
already_loaded_never(st, name) == FALSE

\* the cycle check of load_blocks (line 861)
already_loaded(st, name) == name \in st.loaded_templates

\* load_blocks that does not record the template it loaded
load_blocks_unrecorded(st, name) ==
    LET found == get_template(as_str(name))
        failed(err) == [ok |-> FALSE, err |-> err, state |-> st, instructions |-> ""]
    IN  IF name.t # "str" THEN failed(Error("InvalidOperation"))
        ELSE IF already_loaded(st, as_str(name))
             THEN failed(Error("InvalidOperation"))
        ELSE IF ~found.ok THEN failed(found.err)
        ELSE LET tmpl == Templates[found.tmpl]
             IN  [ok |-> TRUE, err |-> NoError,
                  state |-> [st EXCEPT !.blocks = merge_blocks(@, tmpl.blocks)],
                  instructions |-> tmpl.instructions]

\* load_blocks
load_blocks(st, name) ==
    LET found == get_template(as_str(name))
        failed(err) == [ok |-> FALSE, err |-> err, state |-> st, instructions |-> ""]
    IN  IF name.t # "str" THEN failed(Error("InvalidOperation"))
        ELSE IF already_loaded(st, as_str(name))
             THEN failed(Error("InvalidOperation"))
        ELSE IF ~found.ok THEN failed(found.err)
        ELSE LET tmpl == Templates[found.tmpl]
             IN  [ok |-> TRUE, err |-> NoError,
                  state |-> [st EXCEPT
                      !.loaded_templates = @ \cup {InstructionsName[tmpl.instructions]},
                      !.blocks = merge_blocks(@, tmpl.blocks)],
                  instructions |-> tmpl.instructions]

\* second_extends that never refuses
second_extends_allowed(a) == FALSE

\* LoadBlocks (lines 640-650): whether the opcode refuses because a parent
\* is already pending
second_extends(a) == a.parent_instructions # ""

LoadBlocks ==
    /\ AtInstr("LoadBlocks")
    /\ LET r == load_blocks(state, Peek(Top.stack))
       IN  IF second_extends(Top)
           THEN /\ Bail(Error("InvalidOperation"))
                /\ UNCHANGED <<state, out, hist>>
           ELSE IF ~r.ok
           THEN /\ Bail(r.err)
                /\ UNCHANGED <<state, out, hist>>
           ELSE /\ state' = r.state
                /\ out' = begin_capture(out, "Discard", "LoadBlocks")
                /\ hist' = Begun(hist)
                /\ calls' = SetTop(Advance([Top EXCEPT
                                !.stack = Pop(@),
                                !.parent_instructions = r.instructions]))
                /\ UNCHANGED rv
    /\ UNCHANGED <<closures, recursion_limit, root, report>>

----------------------------------------------------------------------------
(* include (lines 651-655, 700-787)                                        *)

\* the candidates of an Include operand (lines 707-713)
include_choices(name) ==
    IF name.t = "seq" THEN name.v
    ELSE IF name.t \in {"map", "macro", "closure", "loop"} THEN <<>>
    ELSE <<name>>

\* include_scan that renders the last candidate that resolves
include_scan_last(choices, i, tried) ==
    LET hits == {j \in i..Len(choices) : get_template(as_str(choices[j])).ok}
        last == CHOOSE j \in hits : \A k \in hits : k <= j
    IN  IF hits = {}
        THEN [res |-> "none", tmpl |-> "", err |-> NoError, tried |-> choices]
        ELSE [res |-> "found", tmpl |-> as_str(choices[last]), err |-> NoError,
              tried |-> SubSeq(choices, 1, last - 1)]

\* include_scan that takes every candidate it cannot load for a missing one
RECURSIVE include_scan_lenient(_, _, _)
include_scan_lenient(choices, i, tried) ==
    IF i > Len(choices) THEN [res |-> "none", tmpl |-> "", err |-> NoError, tried |-> tried]
    ELSE LET found == get_template(as_str(choices[i]))
         IN  IF choices[i].t = "str" /\ found.ok
             THEN [res |-> "found", tmpl |-> found.tmpl, err |-> NoError, tried |-> tried]
             ELSE include_scan_lenient(choices, i + 1, Append(tried, choices[i]))

\* the candidate loop of perform_include (lines 716-733): the first
\* candidate that resolves, or the error that ends the loop
RECURSIVE include_scan(_, _, _)
include_scan(choices, i, tried) ==
    IF i > Len(choices) THEN [res |-> "none", tmpl |-> "", err |-> NoError, tried |-> tried]
    ELSE IF choices[i].t # "str"
         THEN [res |-> "error", tmpl |-> "", err |-> Error("InvalidOperation"),
               tried |-> tried]
    ELSE LET found == get_template(as_str(choices[i]))
         IN  IF found.ok
             THEN [res |-> "found", tmpl |-> found.tmpl, err |-> NoError, tried |-> tried]
             ELSE IF found.err.kind = "TemplateNotFound"
             THEN include_scan(choices, i + 1, Append(tried, choices[i]))
             ELSE [res |-> "error", tmpl |-> "", err |-> found.err, tried |-> tried]

\* include_depth that charges the include and ignores the limit
include_depth_unchecked(ctx) ==
    [ok |-> TRUE, ctx |-> [ctx EXCEPT !.outer_stack_depth = @ + INCLUDE_RECURSION_COST]]

\* the include is charged against the recursion limit (line 743)
include_depth(ctx) == incr_depth(ctx, INCLUDE_RECURSION_COST)

\* perform_include up to its eval_state call (lines 707-748), or to its
\* return when nothing is evaluated (lines 769-786)
perform_include(st, o, name, ignore_missing) ==
    LET scan == include_scan(include_choices(name), 1, <<>>)
        tmpl == Templates[scan.tmpl]
        st1 == [st EXCEPT !.auto_escape = tmpl.auto_escape,
                          !.instructions = tmpl.instructions,
                          !.blocks = prepare_blocks(tmpl.blocks)]
        r == include_depth(st1.ctx)
        done(res, st9) == [enter |-> FALSE, rv |-> res, state |-> st9, caller |-> NoCaller]
    IN  CASE scan.res = "error" -> done(RvErr(scan.err), st)
          [] scan.res = "none" ->
                IF scan.tried # <<>> /\ ~ignore_missing
                THEN done(RvErr(Error("TemplateNotFound")), st)
                ELSE done(RvOk(<<>>), st)
          [] OTHER ->
                IF ~r.ok THEN done(RvErr(Error("RecursionLimit")), st1)
                ELSE [enter |-> TRUE, rv |-> RvRunning,
                      state |-> [st1 EXCEPT !.ctx = [r.ctx EXCEPT !.closure = 0]],
                      caller |-> [NoCaller EXCEPT !.kind = "include",
                                      !.tmpl = scan.tmpl,
                                      !.old_escape = st.auto_escape,
                                      !.old_instructions = st.instructions,
                                      !.old_blocks = st.blocks,
                                      !.old_loaded_templates = st.loaded_templates,
                                      !.old_closure = st.ctx.closure,
                                      !.before = Snapshot(st, o)]]

\* perform_include_return that hands the error of the evaluation on as it is
perform_include_return_unwrapped(st, caller, res) ==
    [state |-> [st EXCEPT
                  !.ctx = decr_depth([@ EXCEPT !.closure = caller.old_closure],
                                     INCLUDE_RECURSION_COST),
                  !.loaded_templates = caller.old_loaded_templates,
                  !.auto_escape = caller.old_escape,
                  !.instructions = caller.old_instructions,
                  !.blocks = caller.old_blocks],
     rv |-> IF res.st = "err" THEN res ELSE RvOk(<<>>)]

\* perform_include after its eval_state call (lines 749-767)
perform_include_return(st, caller, res) ==
    [state |-> [st EXCEPT
                  !.ctx = decr_depth([@ EXCEPT !.closure = caller.old_closure],
                                     INCLUDE_RECURSION_COST),
                  !.loaded_templates = caller.old_loaded_templates,
                  !.auto_escape = caller.old_escape,
                  !.instructions = caller.old_instructions,
                  !.blocks = caller.old_blocks],
     rv |-> IF res.st = "err"
            THEN RvErr(with_source(Error("BadInclude"), res.err))
            ELSE RvOk(<<>>)]

Include ==
    /\ AtInstr("Include")
    /\ LET r == perform_include(state, out, Peek(Top.stack), Ins.n = 1)
           popped == [Top EXCEPT !.stack = Pop(@)]
       IN  /\ state' = r.state
           /\ IF r.enter
              THEN /\ calls' = PushCall(SetTop(popped),
                                        Activation(0, <<>>, r.state, out, hist, r.caller))
                   /\ UNCHANGED <<rv, report>>
              ELSE /\ report' = Report("include", r.rv.st = "ok", FALSE,
                                       Snapshot(state, out), r.state, out)
                   /\ IF r.rv.st = "ok"
                      THEN calls' = SetTop(Advance(popped)) /\ UNCHANGED rv
                      ELSE /\ rv' = RvErr(process_err(r.rv.err, Top.pc, r.state))
                           /\ UNCHANGED calls
    /\ UNCHANGED <<out, closures, recursion_limit, root, hist>>

\* the eval_state call of perform_include returned
PerformIncludeReturn ==
    /\ ~Running
    /\ Top.caller.kind = "include"
    /\ LET r == perform_include_return(state, Top.caller, rv)
       IN  /\ state' = r.state
           /\ report' = Report("include", r.rv.st = "ok", TRUE, Top.caller.before,
                               r.state, out)
           /\ IF r.rv.st = "ok"
              THEN /\ calls' = [PopCall EXCEPT ![Len(calls) - 1] = Advance(@)]
                   /\ rv' = RvRunning
              ELSE /\ calls' = PopCall
                   /\ rv' = RvErr(process_err(r.rv.err, Caller.pc, r.state))
    /\ UNCHANGED <<out, closures, recursion_limit, root, hist>>

----------------------------------------------------------------------------
(* Macros (lines 103-145, 580-590, 665-691, 996-1019)                      *)

\* eval_macro up to its do_eval call (lines 117-140): the context and the
\* State the macro body is evaluated in
eval_macro(st, instructions, closure) ==
    LET ctx0 == new_with_frame(Frame(RootValue), st.ctx.recursion_limit)
        r1 == push_frame(ctx0, Frame(closure))
        r2 == incr_depth(r1.ctx, depth(st.ctx) + MACRO_RECURSION_COST)
    IN  [ok |-> r1.ok /\ r2.ok,
         state |-> [ctx |-> r2.ctx,
                    undefined_behavior |-> st.undefined_behavior,
                    current_block |-> "",
                    auto_escape |-> st.auto_escape,
                    instructions |-> instructions,
                    blocks |-> [n \in BlockNames |-> NoBlockStack],
                    loaded_templates |-> {},
                    macros |-> st.macros]]

\* CallFunction(name, argc) for a name other than super and loop
\* (lines 580-590); calling a macro value enters eval_macro with an Output
\* of its own
CallFunction ==
    /\ AtInstr("CallFunction")
    /\ Ins.s \notin {"super", "loop"}
    /\ LET func == lookup(state.ctx, Ins.s, closures)
           target == state.macros[func.v.macro_ref_id + 1]
           r == eval_macro(state, target[1], func.v.closure)
           args == SubSeq(Top.stack, Len(Top.stack) - Ins.n + 1, Len(Top.stack))
       IN  IF func.t = "missing"
           THEN Bail(Error("UnknownFunction")) /\ UNCHANGED <<state, out>>
           ELSE IF func.t # "macro"
           THEN Bail(Error("InvalidOperation")) /\ UNCHANGED <<state, out>>
           ELSE IF ~r.ok
           THEN Bail(Error("RecursionLimit")) /\ UNCHANGED <<state, out>>
           ELSE /\ state' = r.state
                /\ out' = NewOutput
                /\ calls' = PushCall(calls, Activation(target[2], args, r.state, NewOutput,
                                hist,
                                [NoCaller EXCEPT !.kind = "macro", !.name = Ins.s,
                                     !.argc = Ins.n,
                                     !.caller_state = state, !.caller_out = out,
                                     !.before = Snapshot(state, out)]))
                /\ UNCHANGED rv
    /\ UNCHANGED <<closures, recursion_limit, root, report, hist>>

\* the eval_macro call made for a macro value returned: the written text is
\* the value of the call
EvalMacroReturn ==
    /\ ~Running
    /\ Top.caller.kind = "macro"
    /\ state' = Top.caller.caller_state
    /\ out' = Top.caller.caller_out
    /\ report' = Report("macro", rv.st = "ok", TRUE, Top.caller.before, state', out')
    /\ IF rv.st = "ok"
       THEN /\ calls' = [PopCall EXCEPT ![Len(calls) - 1] =
                           Advance([@ EXCEPT !.stack =
                               Push(DropTop(@, Top.caller.argc), Text(out.sink))])]
            /\ rv' = RvRunning
       ELSE /\ calls' = PopCall
            /\ rv' = RvErr(process_err(rv.err, Caller.pc, state'))
    /\ UNCHANGED <<closures, recursion_limit, root, hist>>

\* build_macro (lines 996-1019)
build_macro(st, stack, offset, name, flags) ==
    [state |-> [st EXCEPT !.macros = Append(@, <<st.instructions, offset>>)],
     stack |-> Push(DropTop(stack, 2),
                    MacroValue(name, Len(st.macros), stack[Len(stack) - 1],
                               flags % 2 = 1))]

BuildMacro ==
    /\ AtInstr("BuildMacro")
    /\ LET r == build_macro(state, Top.stack, Ins.n, Ins.s, Ins.m)
       IN  /\ state' = r.state
           /\ calls' = SetTop(Advance([Top EXCEPT !.stack = r.stack]))
    /\ UNCHANGED <<out, rv, closures, recursion_limit, root, report, hist>>

\* Return (line 670): break, Ok(stack.try_pop())
Return ==
    /\ AtInstr("Return")
    /\ rv' = RvOk(Top.stack)
    /\ UNCHANGED <<state, out, calls, closures, recursion_limit, root, report, hist>>

\* Enclose (lines 672-682)
Enclose ==
    /\ AtInstr("Enclose")
    /\ LET fresh == state.ctx.closure = 0
           heap == IF fresh THEN Append(closures, NoLocals) ELSE closures
           id == IF fresh THEN Len(heap) ELSE state.ctx.closure
           hit == lookup(state.ctx, Ins.s, closures)
           val == IF hit.t = "missing" THEN Undefined ELSE hit
       IN  /\ closures' = IF heap[id][Ins.s].t = "missing"
                          THEN [heap EXCEPT ![id][Ins.s] = val] ELSE heap
           /\ state' = [state EXCEPT !.ctx.closure = id]
    /\ calls' = SetTop(Advance(Top))
    /\ UNCHANGED <<out, rv, recursion_limit, root, report, hist>>

\* GetClosure (lines 684-691)
GetClosure ==
    /\ AtInstr("GetClosure")
    /\ calls' = SetTop(Advance([Top EXCEPT !.stack =
                    Push(@, IF state.ctx.closure = 0 THEN Undefined
                            ELSE ClosureRef(state.ctx.closure))]))
    /\ UNCHANGED <<state, out, rv, closures, recursion_limit, root, report, hist>>

----------------------------------------------------------------------------
(* Lists (lines 385-396, 972-994)                                          *)

\* build_list that keeps the values in the order they were popped
build_list_no_reverse(stack, n) ==
    LET stk == IF n = -1 THEN Pop(stack) ELSE stack
        count == IF n = -1 THEN Peek(stack).v ELSE n
        v == [i \in 1..count |-> stk[Len(stk) - i + 1]]
    IN  Push(DropTop(stk, count), List(v))

\* BuildList (lines 385-393): the count is the operand, or popped from the
\* stack when the operand is absent (-1); the values are popped top first
\* and the vector is reversed
build_list(stack, n) ==
    LET stk == IF n = -1 THEN Pop(stack) ELSE stack
        count == IF n = -1 THEN Peek(stack).v ELSE n
        v == [i \in 1..count |-> stk[Len(stk) - i + 1]]
    IN  Push(DropTop(stk, count), List(Reverse(v)))

BuildList ==
    /\ AtInstr("BuildList")
    /\ calls' = SetTop(Advance([Top EXCEPT !.stack = build_list(@, Ins.n)]))
    /\ hist' = [hist EXCEPT !.built = [pc |-> Top.pc, n |-> Ins.n, stack |-> Top.stack]]
    /\ UNCHANGED <<state, out, rv, closures, recursion_limit, root, report>>

\* unpack_list that leaves the items as they were pushed
unpack_list_no_reverse(stack, count) ==
    LET top == Peek(stack)
        pushed == Pop(stack) \o top.v
    IN  IF top.t # "seq" THEN [ok |-> FALSE, stack |-> Pop(stack)]
        ELSE IF Len(top.v) = count THEN [ok |-> TRUE, stack |-> pushed]
        ELSE [ok |-> FALSE, stack |-> pushed]

\* unpack_list (lines 972-994): pop the value, push its items one by one,
\* then reverse the top n entries when n is the expected count
unpack_list(stack, count) ==
    LET top == Peek(stack)
        pushed == Pop(stack) \o top.v
    IN  IF top.t # "seq" THEN [ok |-> FALSE, stack |-> Pop(stack)]
        ELSE IF Len(top.v) = count
        THEN [ok |-> TRUE, stack |-> reverse_top(pushed, Len(top.v))]
        ELSE [ok |-> FALSE, stack |-> pushed]

\* UnpackList (lines 394-396)
UnpackList ==
    /\ AtInstr("UnpackList")
    /\ LET r == unpack_list(Top.stack, Ins.n)
       IN  IF r.ok
           THEN calls' = SetTop(Advance([Top EXCEPT !.stack = r.stack])) /\ UNCHANGED rv
           ELSE /\ rv' = RvErr(process_err(Error("CannotUnpack"), Top.pc, state))
                /\ calls' = SetTop([Top EXCEPT !.stack = r.stack])
    /\ UNCHANGED <<state, out, closures, recursion_limit, root, report, hist>>

----------------------------------------------------------------------------
(* Filters and tests (lines 58-72, 532-559)                                *)

\* Environment::get_filter: the filter registered under a name, if any
get_filter(name) ==
    IF name \in {"upper", "lower"} THEN [some |-> TRUE, val |-> name]
    ELSE [some |-> FALSE, val |-> ""]

\* Environment::get_test: the test registered under a name, if any
get_test(name) ==
    IF name \in {"defined", "undefined"} THEN [some |-> TRUE, val |-> name]
    ELSE [some |-> FALSE, val |-> ""]

\* BoxedFilter::apply_to: the text of the first argument marked with the
\* filter that was applied
apply_to(filter, args) == Text(<<filter>> \o Format(args[1]))

\* BoxedTest::perform
perform(test, args) ==
    IF test = "defined" THEN ~IsUndefined(args[1]) ELSE IsUndefined(args[1])

\* get_or_lookup_local (lines 58-72): f is the result of the lookup by
\* name; `at` is the index at which vec is indexed past its end, -1 when
\* it is not
get_or_lookup_local(vec, local_id, f) ==
    LET done(some, val, v, at) == [some |-> some, val |-> val, vec |-> v, at |-> at]
    IN  IF local_id = 255 THEN done(f.some, f.val, vec, -1)
        ELSE IF local_id \in DOMAIN vec /\ vec[local_id] # ""
        THEN done(TRUE, vec[local_id], vec, -1)
        ELSE IF ~f.some THEN done(FALSE, "", vec, -1)
        ELSE IF local_id \notin DOMAIN vec THEN done(FALSE, "", vec, local_id)
        ELSE done(TRUE, f.val, [vec EXCEPT ![local_id] = f.val], -1)

\* ApplyFilter (lines 532-546); indexing the cache past its end panics
ApplyFilter ==
    /\ AtInstr("ApplyFilter")
    /\ LET r == get_or_lookup_local(Top.loaded_filters, Ins.m, get_filter(Ins.s))
           args == SubSeq(Top.stack, Len(Top.stack) - Ins.n + 1, Len(Top.stack))
       IN  IF r.at # -1 THEN Bail(Error("Panic"))
           ELSE IF ~r.some THEN Bail(Error("UnknownFilter"))
           ELSE /\ calls' = SetTop(Advance([Top EXCEPT
                                !.loaded_filters = r.vec,
                                !.stack = Push(DropTop(@, Ins.n), apply_to(r.val, args))]))
                /\ UNCHANGED rv
    /\ UNCHANGED <<state, out, closures, recursion_limit, root, report, hist>>

\* PerformTest (lines 547-559); indexing the cache past its end panics
PerformTest ==
    /\ AtInstr("PerformTest")
    /\ LET r == get_or_lookup_local(Top.loaded_tests, Ins.m, get_test(Ins.s))
           args == SubSeq(Top.stack, Len(Top.stack) - Ins.n + 1, Len(Top.stack))
       IN  IF r.at # -1 THEN Bail(Error("Panic"))
           ELSE IF ~r.some THEN Bail(Error("UnknownTest"))
           ELSE /\ calls' = SetTop(Advance([Top EXCEPT
                                !.loaded_tests = r.vec,
                                !.stack = Push(DropTop(@, Ins.n),
                                               Bool(perform(r.val, args)))]))
                /\ UNCHANGED rv
    /\ UNCHANGED <<state, out, closures, recursion_limit, root, report, hist>>

----------------------------------------------------------------------------
(* Maps (lines 367-384)                                                    *)

\* map_insert that keeps the value a key has already
map_insert_keep(entries, key, value) ==
    IF \E i \in 1..Len(entries) : entries[i][1] = key THEN entries
    ELSE Append(entries, <<key, value>>)

\* ValueMap::insert: a new key is added, a key that is present gets the
\* new value
map_insert(entries, key, value) ==
    IF \E i \in 1..Len(entries) : entries[i][1] = key
    THEN [i \in 1..Len(entries) |->
            IF entries[i][1] = key THEN <<key, value>> ELSE entries[i]]
    ELSE Append(entries, <<key, value>>)

\* the loop of BuildMap and BuildKwargs (lines 369-373, 378-382): the
\* pairs are popped from the top, value before key, and inserted one by one
RECURSIVE build_map(_, _, _)
build_map(entries, stack, pair_count) ==
    IF pair_count = 0 THEN [entries |-> entries, stack |-> stack]
    ELSE LET value == Peek(stack)
             key == Peek(Pop(stack))
         IN  build_map(map_insert(entries, key, value), DropTop(stack, 2),
                       pair_count - 1)

\* BuildMap (lines 367-375)
BuildMap ==
    /\ AtInstr("BuildMap")
    /\ LET r == build_map(<<>>, Top.stack, Ins.n)
       IN  calls' = SetTop(Advance([Top EXCEPT
                        !.stack = Push(r.stack, [t |-> "map", v |-> r.entries])]))
    /\ UNCHANGED <<state, out, rv, closures, recursion_limit, root, report, hist>>

\* BuildKwargs (lines 376-384)
BuildKwargs ==
    /\ AtInstr("BuildKwargs")
    /\ LET r == build_map(<<>>, Top.stack, Ins.n)
       IN  calls' = SetTop(Advance([Top EXCEPT
                        !.stack = Push(r.stack, [t |-> "kwargs", v |-> r.entries])]))
    /\ UNCHANGED <<state, out, rv, closures, recursion_limit, root, report, hist>>

----------------------------------------------------------------------------
(* Auto-escape (lines 518-525, 905-925)                                    *)

\* derive_auto_escape (lines 905-925): the match on (value.as_str(),
\* value == true), arm by arm
derive_auto_escape(value, initial) ==
    LET is_str == value.t = "str"
        is_true_value == value.t = "bool" /\ value.v
        Ok(mode) == [ok |-> TRUE, mode |-> mode]
    IN  CASE is_str /\ as_str(value) = "html" -> Ok("Html")
          [] is_str /\ as_str(value) = "json" -> Ok("Json")
          [] (is_str /\ as_str(value) = "none") \/ (~is_str /\ ~is_true_value) -> Ok("None")
          [] ~is_str /\ is_true_value -> Ok(IF initial = "None" THEN "Html" ELSE initial)
          [] OTHER -> [ok |-> FALSE, mode |-> ""]

\* PushAutoEscape (lines 518-522): the mode in effect is stacked before the
\* new one is derived
PushAutoEscape ==
    /\ AtInstr("PushAutoEscape")
    /\ LET r == derive_auto_escape(Peek(Top.stack), Top.initial_auto_escape)
           a == [Top EXCEPT !.stack = Pop(@),
                            !.auto_escape_stack = Append(@, state.auto_escape)]
       IN  IF r.ok
           THEN /\ state' = [state EXCEPT !.auto_escape = r.mode]
                /\ calls' = SetTop(Advance(a))
                /\ UNCHANGED rv
           ELSE /\ rv' = RvErr(process_err(Error("InvalidOperation"), Top.pc, state))
                /\ calls' = SetTop(a)
                /\ UNCHANGED state
    /\ UNCHANGED <<out, closures, recursion_limit, root, report, hist>>

\* PopAutoEscape (lines 523-525)
PopAutoEscape ==
    /\ AtInstr("PopAutoEscape")
    /\ state' = [state EXCEPT !.auto_escape = Peek(Top.auto_escape_stack)]
    /\ calls' = SetTop(Advance([Top EXCEPT !.auto_escape_stack = Pop(@)]))
    /\ UNCHANGED <<out, rv, closures, recursion_limit, root, report, hist>>

\* Vm::eval has returned
Done == ~Running /\ Len(calls) = 1

Next ==
    \/ EndOfInstructions
    \/ ExtendsSwitch
    \/ EmitRaw
    \/ Emit
    \/ StoreLocal
    \/ Lookup
    \/ LoadConstant
    \/ Jump
    \/ PushWith
    \/ PopFrame
    \/ PushLoop
    \/ Iterate
    \/ PushDidNotIterate
    \/ JumpIfFalse
    \/ JumpIfFalseOrPop
    \/ JumpIfTrueOrPop
    \/ CallFunctionLoop
    \/ FastRecurse
    \/ CallBlock
    \/ CallBlockReturn
    \/ CallFunctionSuper
    \/ FastSuper
    \/ PerformSuperReturn
    \/ LoadBlocks
    \/ Include
    \/ PerformIncludeReturn
    \/ CallFunction
    \/ EvalMacroReturn
    \/ BuildMacro
    \/ Return
    \/ Enclose
    \/ GetClosure
    \/ BuildList
    \/ UnpackList
    \/ ApplyFilter
    \/ PerformTest
    \/ BuildMap
    \/ BuildKwargs
    \/ PushAutoEscape
    \/ PopAutoEscape

Spec == Init /\ [][Next]_vars

\* the dispatch loop is sequential code that always takes its next step:
\* an evaluation that can move on does
LiveSpec == Init /\ [][Next]_vars /\ WF_vars(Next)

----------------------------------------------------------------------------
(* Properties                                                              *)

\* C1 (frame balance): whenever an evaluation (an eval_impl activation:
\* the template, a block body, a super call, an included template, a
\* macro body) returns Ok, the context holds as many frames as when the
\* evaluation was entered and its depth is the depth at entry.
C1_FrameBalance ==
    rv.st = "ok" =>
        /\ Len(state.ctx.stack) = Top.entry.frames
        /\ depth(state.ctx) = Top.entry.depth

\* C1 happens: the template that includes a template that extends a
\* parent (a block call and a super call inside) has returned Ok
C1_Witness == Done /\ rv.st = "ok" /\ root = "inc" /\ out.sink # <<>>

C3_IncludeRestoresState ==
    report.kind = "include" =>
        LET b == report.before.state
            a == report.after.state
        IN  /\ a.auto_escape = b.auto_escape
            /\ a.instructions = b.instructions
            /\ a.blocks = b.blocks
            /\ a.loaded_templates = b.loaded_templates
            /\ a.ctx.closure = b.ctx.closure
            /\ depth(a.ctx) = depth(b.ctx)

\* C4 (a failed super closes its capture): when a super call returns an
\* error, the capture stack of the Output is what it was before the call.
C4_FailedSuperClosesCapture ==
    (report.kind = "super" /\ ~report.ok) =>
        report.after.out.capture_stack = report.before.out.capture_stack

\* C5 (frames after a failed body): when the body evaluated by call_block
\* or perform_super fails, the context holds exactly the frames it held
\* before the call.
C5_FailedBodyPopsFrames ==
    (report.kind \in {"block", "super"} /\ report.evaluated /\ ~report.ok) =>
        report.after.state.ctx.stack = report.before.state.ctx.stack

\* C6 (block and super calls restore): after call_block or perform_super
\* returned, by whichever path, every BlockStack is at the position it had
\* before the call and state.instructions and state.current_block are what
\* they were before the call.
C6_BlockCallRestores ==
    report.kind \in {"block", "super"} =>
        /\ report.after.state.blocks = report.before.state.blocks
        /\ report.after.state.instructions = report.before.state.instructions
        /\ report.after.state.current_block = report.before.state.current_block

\* the error an error chain started with
RECURSIVE RootCause(_)
RootCause(err) == IF err.source = <<>> THEN err ELSE RootCause(err.source[1])

RaisesRecursionLimit ==
    /\ rv'.st = "err"
    /\ RootCause(rv'.err).kind = "RecursionLimit"
    /\ Len(calls') = Len(calls)

\* an Include of a template that resolves, from a depth which INCLUDE_COST
\* more would take over the limit
IncludeOverLimit ==
    /\ AtInstr("Include")
    /\ include_scan(include_choices(Peek(Top.stack)), 1, <<>>).res = "found"
    /\ depth(state.ctx) + INCLUDE_RECURSION_COST > recursion_limit

\* a call of a macro from a depth which MACRO_COST more, and the two frames
\* of the macro's context, would take over the limit
MacroOverLimit ==
    /\ AtInstr("CallFunction")
    /\ lookup(state.ctx, Ins.s, closures).t = "macro"
    /\ depth(state.ctx) + MACRO_RECURSION_COST + 2 > recursion_limit

\* C7 (recursion bound): the context depth never exceeds the recursion
\* limit; an include or a macro call that would take the depth over the
\* limit raises RecursionLimit instead of evaluating; once an error is
\* raised nothing is written any more; the template that includes itself
\* ends with RecursionLimit as the cause of its error.
C7_RecursionBound ==
    /\ [](depth(state.ctx) <= recursion_limit)
    /\ [][IncludeOverLimit => RaisesRecursionLimit]_vars
    /\ [][MacroOverLimit => RaisesRecursionLimit]_vars
    /\ [][rv.st = "err" => (hist'.writes = hist.writes /\ rv'.st = "err")]_vars
    /\ []((Done /\ root = "selfinc") =>
            (rv.st = "err" /\ RootCause(rv.err).kind = "RecursionLimit"))

\* C7 happens: the self-including template was stopped by the limit after
\* three levels had written their text
C7_Witness ==
    /\ Done /\ root = "selfinc"
    /\ RootCause(rv.err).kind = "RecursionLimit"
    /\ out.sink = <<"s", "s", "s">>

\* the templates whose extends chain names a template twice
CyclicRoots == {"selfext", "cycA", "cycB"}

\* C8 (cycle detection): a LoadBlocks of a name that is in
\* loaded_templates raises InvalidOperation and leaves the state (the block
\* table included) as it was; a LoadBlocks that succeeds has recorded the
\* name; every template whose extends chain names a template twice ends
\* with InvalidOperation.
C8_CycleDetection ==
    /\ [][(AtInstr("LoadBlocks") /\ Peek(Top.stack).t = "str"
             /\ as_str(Peek(Top.stack)) \in state.loaded_templates)
          => (rv'.st = "err" /\ rv'.err.kind = "InvalidOperation" /\ state' = state)]_vars
    /\ [][(AtInstr("LoadBlocks") /\ rv'.st = "running")
          => as_str(Peek(Top.stack)) \in state'.loaded_templates]_vars
    /\ []((Done /\ root \in CyclicRoots) =>
            (rv.st = "err" /\ rv.err.kind = "InvalidOperation"))

\* C8 happens: the chain cycA -> cycB -> cycA was refused at its third
\* LoadBlocks
C8_Witness ==
    /\ Done /\ root = "cycA"
    /\ rv.err.kind = "InvalidOperation"
    /\ state.loaded_templates = {"cycA", "cycB"}

\* C9 (one extends per template): a LoadBlocks while a parent is pending
\* raises InvalidOperation and changes neither the state nor the output;
\* the switch to the parent instructions empties the pending slot; with an
\* empty slot a LoadBlocks of an existing template not yet loaded succeeds
\* and fills the slot.
C9_SecondExtends ==
    /\ [][(AtInstr("LoadBlocks") /\ Top.parent_instructions # "")
          => (/\ rv'.st = "err" /\ rv'.err.kind = "InvalidOperation"
              /\ state' = state /\ out' = out)]_vars
    /\ [][(AtEnd /\ Top.parent_instructions # "")
          => calls'[Len(calls')].parent_instructions = ""]_vars
    /\ [][(AtInstr("LoadBlocks") /\ Top.parent_instructions = ""
             /\ as_str(Peek(Top.stack)) \in TemplateNames \ state.loaded_templates)
          => (/\ rv'.st = "running"
              /\ calls'[Len(calls')].parent_instructions =
                    Templates[as_str(Peek(Top.stack))].instructions)]_vars

\* C9 happens: the second LoadBlocks of the template "twice" was refused
\* although its name, "leaf", was never loaded
C9_Witness ==
    /\ Done /\ root = "twice"
    /\ rv.err.kind = "InvalidOperation"
    /\ rv.err.loc = <<"twice", "twice", 3>>
    /\ state.loaded_templates = {"base"}

\* a step that leaves the Output in place (a macro body writes to an Output
\* of its own)
SameOutput ==
    /\ ~(Len(calls') > Len(calls) /\ calls'[Len(calls')].caller.kind = "macro")
    /\ ~(Len(calls') < Len(calls) /\ Top.caller.kind = "macro")

\* C10 (the phase before the switch to the parent): while a parent is
\* pending the output is discarding and no step changes the sink; a
\* CallBlock of the template with the pending parent only moves on to the
\* next instruction; at the end of the child's instructions the VM goes to
\* pc 0 of the parent instructions and closes the Discard capture that
\* LoadBlocks opened; the child that extends "base" renders as the parent
\* with the child's block, without the text the child emitted itself.
C10_ExtendsPhase ==
    /\ [](Top.parent_instructions # "" => is_discarding(out))
    /\ [][(is_discarding(out) /\ SameOutput) => out'.sink = out.sink]_vars
    /\ [][(AtInstr("CallBlock") /\ Top.parent_instructions # "")
          => (/\ calls' = SetTop(Advance(Top))
              /\ state' = state /\ out' = out /\ rv' = rv)]_vars
    /\ [][(AtEnd /\ Top.parent_instructions # "")
          => (/\ calls'[Len(calls')].pc = 0
              /\ state'.instructions = Top.parent_instructions
              /\ top_capture(out).by = "LoadBlocks"
              /\ top_capture(out).mode = "Discard"
              /\ out'.capture_stack = Pop(out.capture_stack))]_vars
    /\ []((Done /\ root = "child" /\ rv.st = "ok") =>
            out.sink = <<"<", "[", "P", "]", ">">>)

\* C10 happens: the child that extends "base" was rendered, and more was
\* written than reached the sink
C10_Witness ==
    /\ Done /\ root = "child" /\ rv.st = "ok"
    /\ out.sink = <<"<", "[", "P", "]", ">">>
    /\ hist.writes > Len(out.sink)

\* a super call (FastSuper, or CallFunction "super" without arguments) is
\* about to run
AtSuper ==
    \/ AtInstr("FastSuper")
    \/ AtInstr("CallFunction") /\ Ins.s = "super" /\ Ins.n = 0

\* the step enters a nested evaluation
Enters == Len(calls') = Len(calls) + 1

\* C11 (super walks the extends chain): LoadBlocks appends the parent's
\* definition of a block beneath the ones already there; CallBlock runs the
\* first definition of the chain and a super call that runs goes one
\* definition further, so that a body entered by a block or super call at
\* level i of the BlockStack runs the i-th template's definition; super
\* without a further definition, or with no block executing, raises
\* InvalidOperation and runs nothing; a super call that returned without an
\* error leaves the BlockStack at the level it found, so that the next super of the same body
\* runs the same definition.  For grand -> child -> base the output is
\* <g[P]h> and two super calls in one body render the parent's text twice.
C11_SuperChain ==
    /\ [][(AtInstr("LoadBlocks") /\ rv'.st = "running") =>
            \A b \in BlockNames :
               LET def == Templates[as_str(Peek(Top.stack))].blocks
               IN  state'.blocks[b].instructions =
                      IF b \in DOMAIN def
                      THEN Append(state.blocks[b].instructions, def[b])
                      ELSE state.blocks[b].instructions]_vars
    /\ [][(AtInstr("CallBlock") /\ Enters) =>
            /\ state.blocks[Ins.s].depth = 0
            /\ state'.instructions = state.blocks[Ins.s].instructions[1]]_vars
    /\ [][(AtSuper /\ Enters) =>
            LET bs == state.blocks[state.current_block]
            IN  /\ state'.blocks[state.current_block].depth = bs.depth + 1
                /\ state'.instructions = bs.instructions[bs.depth + 2]]_vars
    /\ [][(AtSuper /\ (state.current_block = ""
                        \/ /\ has_block(state.blocks, state.current_block)
                           /\ ~bs_can_push(state.blocks[state.current_block]))) =>
            (/\ rv'.st = "err" /\ rv'.err.kind = "InvalidOperation"
             /\ ~Enters /\ state' = state /\ out' = out)]_vars
    /\ [][(rv.st = "ok" /\ Top.caller.kind = "super") =>
            state'.blocks[Top.caller.name].depth =
               Top.caller.before.state.blocks[Top.caller.name].depth]_vars
    /\ []((Done /\ rv.st = "ok" /\ root = "grand") =>
            out.sink = <<"<", "g", "[", "P", "]", "h", ">">>)
    /\ []((Done /\ rv.st = "ok" /\ root = "twosuper") =>
            out.sink = <<"<", "P", "+", "P", ">">>)

\* C11 happens: the chain grand -> child -> base was rendered with both
\* super calls made
C11_Witness ==
    /\ Done /\ rv.st = "ok" /\ root = "grand"
    /\ state.blocks["body"].instructions = <<"grand_body", "child_body", "base_body">>
    /\ out.sink = <<"<", "g", "[", "P", "]", "h", ">">>

\* C12 (block errors are wrapped): when the body run by a block call or by
\* a super call has returned an error, the call returns an error of kind
\* EvalBlock whose source is that error.
C12_BlockErrorsWrapped ==
    [][(rv.st = "err" /\ Top.caller.kind \in {"block", "super"}) =>
         (/\ rv'.st = "err"
          /\ rv'.err.kind = "EvalBlock"
          /\ rv'.err.source = <<rv.err>>)]_vars

\* C13 (include errors are wrapped): when the evaluation of an included
\* template has returned an error, the Include returns an error of kind
\* BadInclude whose source is that error; the template "outer", which
\* includes with ignore_missing a template whose own include finds nothing,
\* always ends with an error, and where that error goes back to
\* TemplateNotFound it is a BadInclude around it.
C13_IncludeErrorsWrapped ==
    /\ [][(rv.st = "err" /\ Top.caller.kind = "include") =>
            (/\ rv'.st = "err"
             /\ rv'.err.kind = "BadInclude"
             /\ rv'.err.source = <<rv.err>>)]_vars
    /\ []((Done /\ root = "outer") =>
            /\ rv.st = "err"
            /\ (RootCause(rv.err).kind = "TemplateNotFound" =>
                  /\ rv.err.kind = "BadInclude"
                  /\ rv.err.source[1].kind = "TemplateNotFound"))

\* C13 happens: the include of "outer" ignored missing templates and still
\* returned the TemplateNotFound of the nested include as a BadInclude
C13_Witness ==
    /\ Done /\ root = "outer"
    /\ rv.st = "err" /\ rv.err.kind = "BadInclude"
    /\ rv.err.source[1].kind = "TemplateNotFound"
    /\ out.sink = <<"o", "m">>

\* the candidates of the operand the Include at pc is about to pop
Candidates == include_choices(Peek(Top.stack))

\* every candidate is a name
AllNames == \A i \in 1..Len(Candidates) : Candidates[i].t = "str"

\* the candidate is the name of a template of the environment
Resolves(c) == c.t = "str" /\ get_template(as_str(c)).ok

\* the candidate is a name the environment has no template for
Missing(c) == c.t = "str" /\ get_template(as_str(c)).err.kind = "TemplateNotFound"

\* position of the first candidate that resolves, 0 when none does
FirstResolving ==
    IF \E i \in 1..Len(Candidates) : Resolves(Candidates[i])
    THEN CHOOSE i \in 1..Len(Candidates) :
            /\ Resolves(Candidates[i])
            /\ \A j \in 1..(i - 1) : ~Resolves(Candidates[j])
    ELSE 0

\* every candidate before position i is a name that was not found
MissingBefore(i) == \A j \in 1..(i - 1) : Missing(Candidates[j])

\* C14 (no candidate resolves): an Include whose operand, a name or an
\* iterable of names of any length, has no candidate that resolves raises
\* TemplateNotFound when ignore_missing is false, and when it is true moves
\* on to the next instruction without an error and without output.
C14_NoneResolves ==
    [][(AtInstr("Include") /\ MissingBefore(Len(Candidates) + 1)) =>
         IF Ins.n = 1
         THEN /\ rv'.st = "running" /\ out' = out
              /\ calls' = SetTop(Advance([Top EXCEPT !.stack = Pop(@)]))
         ELSE /\ rv'.st = "err" /\ rv'.err.kind = "TemplateNotFound"]_vars

\* C15 (first candidate that resolves): an Include of an iterable of names
\* of which one resolves either evaluates the first one that resolves or
\* fails on the recursion limit, the candidates it found missing are exactly
\* the ones before that one, and when the evaluation has returned Ok the
\* Include is over and the next instruction runs: "inclist", whose
\* candidates are a missing name, "leaf" and "base", renders "leaf" only.
C15_FirstResolving ==
    /\ [][(AtInstr("Include") /\ AllNames /\ FirstResolving > 0
                              /\ MissingBefore(FirstResolving)) =>
            LET first == as_str(Candidates[FirstResolving])
            IN  /\ include_scan(Candidates, 1, <<>>).tried =
                      SubSeq(Candidates, 1, FirstResolving - 1)
                /\ \/ /\ Enters
                      /\ state'.instructions = Templates[first].instructions
                      /\ calls'[Len(calls')].caller.tmpl = first
                   \/ /\ ~Enters
                      /\ rv'.st = "err" /\ rv'.err.kind = "RecursionLimit"]_vars
    /\ [][(rv.st = "ok" /\ Top.caller.kind = "include") =>
            (/\ rv'.st = "running"
             /\ Len(calls') = Len(calls) - 1
             /\ calls'[Len(calls')].pc = Caller.pc + 1
             /\ out' = out)]_vars
    /\ []((Done /\ root = "inclist" /\ rv.st = "ok") => out.sink = <<"L", "k">>)

\* C15 happens: "inclist" was rendered
C15_Witness ==
    /\ Done /\ root = "inclist" /\ rv.st = "ok"
    /\ out.sink = <<"L", "k">>
    /\ report.kind = "include" /\ report.evaluated

\* C16 (errors carry a location): an error with which the dispatch loop
\* returns while it executes the opcode at pc carries a location, and the
\* location is that of pc.
C16_ErrorsCarryLocation ==
    [][(Running /\ rv'.st = "err") =>
         (/\ rv'.err.loc # <<>>
          /\ rv'.err.loc[3] = Top.pc)]_vars

\* the loops of the frames of the current context
Loops == { state.ctx.stack[i].current_loop : i \in
             { j \in 1..Len(state.ctx.stack) : state.ctx.stack[j].current_loop.present } }

\* C17 (loop index): a loop on which Iterate ran k times has the index
\* k - 1, and the "before first" value (the largest unsigned) when Iterate
\* has not run yet; an Iterate adds one to the index of the current loop,
\* wrapping from the "before first" value to 0; no other step changes the
\* index of a loop that stays on the context.
C17_LoopIndex ==
    /\ [](\A l \in Loops :
             l.object.idx = IF l.iterated = 0 THEN UsizeModulus - 1 ELSE l.iterated - 1)
    /\ [][AtInstr("Iterate") =>
            /\ current_loop(state'.ctx).iterated = current_loop(state.ctx).iterated + 1
            /\ current_loop(state'.ctx).object.idx =
                  IF current_loop(state.ctx).object.idx = UsizeModulus - 1 THEN 0
                  ELSE current_loop(state.ctx).object.idx + 1]_vars
    /\ [][(~AtInstr("Iterate") /\ SameOutput) =>
            \A i \in 1..Len(state.ctx.stack) :
               (/\ i <= Len(state'.ctx.stack)
                /\ state.ctx.stack[i].current_loop.present
                /\ state'.ctx.stack[i].current_loop.present)
               => state'.ctx.stack[i].current_loop.object.idx =
                     state.ctx.stack[i].current_loop.object.idx]_vars

\* C17 happens: the loop over two items has left through its third Iterate
C17_Witness ==
    /\ root = "forelse2" /\ AtInstr("PushDidNotIterate")
    /\ current_loop(state.ctx).iterated = 3
    /\ current_loop(state.ctx).object.idx = 2

\* C18, as stated: PushDidNotIterate pushes true exactly when the index of
\* the current loop is the "before first" value (the largest unsigned).
C18_TrueIffSentinel ==
    [][AtInstr("PushDidNotIterate") =>
         Peek(calls'[Len(calls')].stack) =
            Bool(current_loop(state.ctx).object.idx = UsizeModulus - 1)]_vars

\* C18, amended: PushDidNotIterate pushes exactly one value and moves on;
\* the value is true exactly when the index of the current loop is 0, that
\* is when Iterate ran exactly once on the loop, and false for every other
\* index, the "before first" value included.
C18_TrueIffZero ==
    [][AtInstr("PushDidNotIterate") =>
         LET l == current_loop(state.ctx)
         IN  /\ calls' = SetTop(Advance([Top EXCEPT
                            !.stack = Push(@, Bool(l.object.idx = 0))]))
             /\ (l.object.idx = 0) = (l.iterated = 1)
             /\ state' = state /\ out' = out /\ rv' = rv]_vars

\* C18 happens: PushDidNotIterate has pushed true for a loop whose index is
\* 0, not the "before first" value
C18_Witness ==
    /\ root = "forelse0" /\ AtInstr("PopFrame")
    /\ Peek(Top.stack) = Bool(TRUE)
    /\ current_loop(state.ctx).object.idx = 0

\* the Iterate of the current loop found no item: the loop is at its exit
AtLoopExit ==
    LET l == current_loop(state.ctx)
    IN  /\ l.iterated = l.object.len + 1
        /\ l.object.value_triple[2] = NoneValue

\* C19 (for/else): PushDidNotIterate at the exit of a loop over n items
\* pushes true exactly when n = 0; the loop over no item renders the else
\* branch only, the loop over two items renders the body twice and not the
\* else branch.
C19_ForElse ==
    /\ [][(AtInstr("PushDidNotIterate") /\ AtLoopExit) =>
            Peek(calls'[Len(calls')].stack) =
               Bool(current_loop(state.ctx).object.len = 0)]_vars
    /\ []((Done /\ rv.st = "ok" /\ root = "forelse0") => out.sink = <<"B">>)
    /\ []((Done /\ rv.st = "ok" /\ root = "forelse2") => out.sink = <<"A", "A">>)

\* C19 happens: `{% for x in [] %}A{% else %}B{% endfor %}` was rendered
C19_Witness ==
    /\ Done /\ rv.st = "ok" /\ root = "forelse0"
    /\ out.sink = <<"B">>
    /\ hist.writes = 1

\* a recursive call of the current loop is about to run; whether it captures
AtRecurse == AtInstr("FastRecurse") \/ (AtInstr("CallFunction") /\ Ins.s = "loop" /\ Ins.n = 1)
Capturing == AtInstr("CallFunction")

\* the current loop exists and is recursive
InRecursiveLoop ==
    has_current_loop(state.ctx) /\ current_loop(state.ctx).recurse_jump_target # -1

\* C20 (loop recursion): a recursive call inside a recursive loop leaves its
\* argument on the stack, remembers (pc + 1, capture), opens a capture
\* exactly for loop(x) and jumps to the PushLoop of the current loop; that
\* PushLoop pops the argument as its iterable and takes the remembered
\* return over into the new loop; the PopFrame of a recursed loop returns to
\* the instruction after the most recent call that has not returned yet,
\* with the stack that call left behind its argument, plus the captured
\* output as one value for loop(x) and nothing for FastRecurse; a recursive
\* call with no current loop or in a loop that is not recursive raises
\* InvalidOperation and opens no capture; when the template has rendered,
\* every recursive call has returned.
C20_LoopRecursion ==
    /\ [][(AtRecurse /\ InRecursiveLoop) =>
            LET target == current_loop(state.ctx).recurse_jump_target
                top == calls'[Len(calls')]
            IN  /\ rv'.st = "running"
                /\ top.pc = target
                /\ Instrs[target + 1].op = "PushLoop"
                /\ top.stack = Top.stack
                /\ top.next_loop_recursion_jump = SomeJump(Top.pc + 1, Capturing)
                /\ out'.capture_stack =
                      IF Capturing
                      THEN Append(out.capture_stack,
                                  [mode |-> "Capture", by |-> "loop", buf |-> <<>>])
                      ELSE out.capture_stack]_vars
    /\ [][(AtInstr("PushLoop") /\ Top.next_loop_recursion_jump.set /\ rv'.st = "running") =>
            LET l == top_frame(state'.ctx).current_loop
            IN  /\ l.current_recursion_jump = Top.next_loop_recursion_jump
                /\ l.object.len = Len(Peek(Top.stack).v)
                /\ l.object.value_triple[3] = IterNext(Peek(Top.stack).v)
                /\ calls'[Len(calls')].stack = Pop(Top.stack)
                /\ ~calls'[Len(calls')].next_loop_recursion_jump.set]_vars
    /\ [][(AtInstr("PopFrame") /\ pending_jump(state).set) =>
            LET site == hist.sites[Len(hist.sites)]
                top == calls'[Len(calls')]
            IN  /\ pending_jump(state) = SomeJump(site.return, site.capture)
                /\ top.pc = site.return
                /\ Instrs[site.return].op \in {"CallFunction", "FastRecurse"}
                /\ site.capture = (Instrs[site.return].op = "CallFunction")
                /\ top.stack = IF site.capture
                               THEN Push(site.stack, captured_value(out))
                               ELSE site.stack
                /\ out'.capture_stack = IF site.capture THEN Pop(out.capture_stack)
                                        ELSE out.capture_stack
                /\ hist'.sites = Pop(hist.sites)]_vars
    /\ [][((AtInstr("FastRecurse") \/ (AtInstr("CallFunction") /\ Ins.s = "loop"))
             /\ ~InRecursiveLoop) =>
            (/\ rv'.st = "err" /\ rv'.err.kind = "InvalidOperation"
             /\ out' = out /\ state' = state /\ hist'.begins = hist.begins)]_vars
    /\ []((Done /\ rv.st = "ok") => hist.sites = <<>>)
    /\ []((Done /\ rv.st = "ok" /\ root \in {"rloop", "floop"}) =>
            out.sink = <<"n", "n", "n">>)

\* C20 happens: the PopFrame of a loop recursed into by loop(x) is about to
\* return while an outer loop(x) call is still waiting for its own return
C20_Witness ==
    /\ root = "rloop" /\ AtInstr("PopFrame") /\ pending_jump(state).set
    /\ Len(hist.sites) = 2
    /\ hist.sites[1].capture /\ hist.sites[2].capture

\* the value UnpackList is about to pop yields exactly the items it expects
UnpackFits == Peek(Top.stack).t = "seq" /\ Len(Peek(Top.stack).v) = Ins.n

AfterBuildList ==
    /\ Top.pc > 0
    /\ Instrs[Top.pc].op = "BuildList"
    /\ Instrs[Top.pc].n = Ins.n
    /\ hist.built.pc = Top.pc - 1

C23_DerivedMode ==
    [][PushAutoEscape =>
        LET v == Peek(Top.stack)
            derived(mode) == rv' = RvRunning /\ state'.auto_escape = mode
        IN  CASE v.t = "str" /\ v.v = <<"html">> -> derived("Html")
              [] v.t = "str" /\ v.v = <<"none">> -> derived("None")
              [] v.t = "bool" /\ ~v.v -> derived("None")
              [] v.t = "bool" /\ v.v ->
                    derived(IF Top.initial_auto_escape = "None" THEN "Html"
                            ELSE Top.initial_auto_escape)
              [] OTHER -> rv'.st = "err" /\ rv'.err.kind = "InvalidOperation"]_vars

\* PushLoop has pushed a loop
LoopPushed == PushLoop /\ rv' = RvRunning

\* the node of the tree {a:{b:{}}} the recursive loop is rendering
AtNode(node) ==
    /\ Running
    /\ state.instructions = "rchain"
    /\ Top.pc = 4
    /\ lookup(state.ctx, "item", closures) = node

\* C24: the loop PushLoop creates has the depth of the immediately
\* enclosing loop plus 1 when that loop is recursive and 0 otherwise (no
\* enclosing loop, or one that is not recursive); a loop entered through k
\* nested loop(x) recursions has depth k, and in the tree {a:{b:{}}} the
\* node a is rendered at depth 0 and the deepest node b at depth 1.
C24_LoopDepth ==
    /\ [][LoopPushed =>
            current_loop(state'.ctx).object.depth =
                IF has_current_loop(state.ctx)
                   /\ current_loop(state.ctx).recurse_jump_target # -1
                THEN current_loop(state.ctx).object.depth + 1
                ELSE 0]_vars
    /\ [][LoopPushed /\ state.instructions \in {"rloop", "floop", "rchain"} =>
            current_loop(state'.ctx).object.depth = Len(hist.sites)]_vars
    /\ [](AtNode(List(<<List(<<>>)>>)) => current_loop(state.ctx).object.depth = 0)
    /\ [](AtNode(List(<<>>)) => current_loop(state.ctx).object.depth = 1)

\* the deepest node of {a:{b:{}}} is being rendered, one recursion deep
C24_Witness ==
    /\ AtNode(List(<<>>))
    /\ Len(hist.sites) = 1
    /\ current_loop(state.ctx).object.depth = 1

\* C25: for a loop over an iterable that yields s1..sn the k-th Iterate
\* pushes sk, for k = 1..n in that order and each item once, and the
\* (n+1)-th Iterate jumps to exit_pc and pushes nothing; after the k-th
\* Iterate the triple of adjacent items is (s(k-1), sk, s(k+1)), with none
\* for the positions outside 1..n, although PushLoop has pulled the first
\* item from the iterator already.
C25_IterateOrder ==
    [][Iterate =>
        LET l == current_loop(state.ctx)
            s == l.yields
            k == l.iterated + 1
            at(i) == IF i \in 1..Len(s) THEN s[i] ELSE NoneValue
        IN  /\ IF k <= Len(s)
               THEN Top'.stack = Push(Top.stack, s[k]) /\ Top'.pc = Top.pc + 1
               ELSE Top'.stack = Top.stack /\ Top'.pc = Ins.n
            /\ current_loop(state'.ctx).iterated = k
            /\ current_loop(state'.ctx).object.value_triple
                  = <<at(k - 1), at(k), at(k + 1)>>]_vars

\* the loop over a, b has left through its third Iterate
C25_Witness ==
    /\ Running
    /\ state.instructions = "forelse2"
    /\ Top.pc = 6
    /\ Top.stack = <<>>
    /\ current_loop(state.ctx).yields = <<Str("a"), Str("b")>>
    /\ current_loop(state.ctx).iterated = 3
    /\ current_loop(state.ctx).object.value_triple = <<Str("b"), NoneValue, NoneValue>>

\* the i-th key/value pair, in source order, of the pair_count pairs on
\* top of a stack
PairAt(stack, pair_count, i) ==
    LET base == Len(stack) - 2 * pair_count
    IN  <<stack[base + 2 * i - 1], stack[base + 2 * i]>>

\* C26: BuildMap k and BuildKwargs k pop exactly k key/value pairs and push
\* one map (marked as keyword arguments by BuildKwargs); the map has each
\* key of the pairs once, and a key that occurs in more than one pair has
\* the value of the pair that comes first in source order, the one deepest
\* on the stack.
C26_FirstPairWins ==
    [][BuildMap \/ BuildKwargs =>
        LET k == Ins.n
            made == Peek(Top'.stack)
            pair(i) == PairAt(Top.stack, k, i)
            first(key) == CHOOSE i \in 1..k :
                             /\ pair(i)[1] = key
                             /\ \A j \in 1..(i - 1) : pair(j)[1] # key
        IN  /\ rv' = RvRunning
            /\ Pop(Top'.stack) = DropTop(Top.stack, 2 * k)
            /\ made.t = IF Ins.op = "BuildMap" THEN "map" ELSE "kwargs"
            /\ {made.v[i][1] : i \in 1..Len(made.v)} = {pair(i)[1] : i \in 1..k}
            /\ \A i, j \in 1..Len(made.v) : made.v[i][1] = made.v[j][1] => i = j
            /\ \A i \in 1..Len(made.v) :
                  made.v[i][2] = pair(first(made.v[i][1]))[2]]_vars

\* the key k was given twice, first with "first" and then with "last": the
\* map built from the three pairs has "first"
C26_Witness ==
    /\ Running
    /\ state.instructions = "mapdup"
    /\ Top.pc = 8
    /\ Len(Top.stack) = 2
    /\ Peek(Top.stack).t = "map"
    /\ Len(Peek(Top.stack).v) = 2
    /\ <<Str("k"), Str("first")>> \in {Peek(Top.stack).v[i] : i \in 1..2}

\* the instructions of every sequence that carry a cache slot for `op`
Cached(code, op) ==
    {i \in 1..Len(Code[code]) : Code[code][i].op = op /\ Code[code][i].m # 255}

\* every instruction sequence gives a local_id to one filter name and to
\* one test name only
SingleAssignment ==
    \A code \in DOMAIN Code : \A op \in {"ApplyFilter", "PerformTest"} :
        \A i, j \in Cached(code, op) :
            Code[code][i].m = Code[code][j].m => Code[code][i].s = Code[code][j].s

\* every populated slot of a cache holds the name that an instruction of
\* the current sequence looks up under that local_id
FilledHere(vec, op) ==
    \A id \in DOMAIN vec :
        vec[id] # "" =>
            \E i \in Cached(state.instructions, op) :
                Instrs[i].m = id /\ Instrs[i].s = vec[id]

\* the arguments ApplyFilter and PerformTest hand to the callable
TopArgs == SubSeq(Top.stack, Len(Top.stack) - Ins.n + 1, Len(Top.stack))

SameLoaded ==
    /\ Top'.loaded_filters = Top.loaded_filters
    /\ Top'.loaded_tests = Top.loaded_tests

\* C27: provided every instruction sequence gives a local_id other than
\* 0xFF to one filter name and one test name, ApplyFilter and PerformTest
\* call what the environment has registered under their name; a populated
\* slot belongs to the instructions being evaluated, both caches are empty
\* right after the switch to the parent instructions, local_id 0xFF leaves
\* the caches as they are, and a name that is not registered raises
\* UnknownFilter or UnknownTest and fills no slot.
C27_CachedCallables ==
    /\ [][SingleAssignment /\ ApplyFilter /\ rv' = RvRunning =>
            /\ get_filter(Ins.s).some
            /\ Top'.stack = Push(DropTop(Top.stack, Ins.n),
                                 apply_to(get_filter(Ins.s).val, TopArgs))]_vars
    /\ [][SingleAssignment /\ PerformTest /\ rv' = RvRunning =>
            /\ get_test(Ins.s).some
            /\ Top'.stack = Push(DropTop(Top.stack, Ins.n),
                                 Bool(perform(get_test(Ins.s).val, TopArgs)))]_vars
    /\ [](SingleAssignment /\ Running =>
            /\ FilledHere(Top.loaded_filters, "ApplyFilter")
            /\ FilledHere(Top.loaded_tests, "PerformTest"))
    /\ [][ExtendsSwitch => /\ Top'.loaded_filters = NoneLoaded
                           /\ Top'.loaded_tests = NoneLoaded]_vars
    /\ [][(ApplyFilter \/ PerformTest) /\ Ins.m = 255 => SameLoaded]_vars
    /\ [][ApplyFilter /\ ~get_filter(Ins.s).some =>
            rv'.st = "err" /\ rv'.err.kind = "UnknownFilter" /\ SameLoaded]_vars
    /\ [][PerformTest /\ ~get_test(Ins.s).some =>
            rv'.st = "err" /\ rv'.err.kind = "UnknownTest" /\ SameLoaded]_vars

\* the child filled slot 0 with "upper"; after the switch the parent has
\* looked "lower" up under local_id 0 and applied it
C27_Witness ==
    /\ SingleAssignment
    /\ Running
    /\ root = "filtchild"
    /\ state.instructions = "filtbase"
    /\ Top.pc = 2
    /\ Top.loaded_filters[0] = "lower"
    /\ Top.stack = <<Text(<<"lower", "v">>)>>

\* the lookup ApplyFilter or PerformTest is about to make in its cache
LocalLookup ==
    IF Ins.op = "ApplyFilter"
    THEN get_or_lookup_local(Top.loaded_filters, Ins.m, get_filter(Ins.s))
    ELSE get_or_lookup_local(Top.loaded_tests, Ins.m, get_test(Ins.s))

\* C29 as stated: for every local_id and every lookup result
\* get_or_lookup_local only reads or writes cache slots with an index below
\* MAX_LOCALS; no ApplyFilter or PerformTest indexes its cache past the end.
C29_SlotsInRange ==
    [][ApplyFilter \/ PerformTest =>
        /\ LocalLookup.at = -1
        /\ ~(rv'.st = "err" /\ rv'.err.kind = "Panic")]_vars

\* C28 as stated: whenever a super call is performed while current_block
\* names a block, that name is a key of the state's block table, so the
\* lookup of perform_super cannot fail; in particular while an included
\* template is evaluated from inside a block.
C28_SuperBlockKnown ==
    (AtSuper /\ state.current_block # "") =>
        has_block(state.blocks, state.current_block)

\* the candidate is not a string, or its lookup fails with an error other
\* than TemplateNotFound
Fails(c) == ~Resolves(c) /\ ~Missing(c)

\* position of the first candidate that fails with only missing names
\* before it, 0 when there is none
FirstFailing ==
    IF \E i \in 1..Len(Candidates) : Fails(Candidates[i]) /\ MissingBefore(i)
    THEN CHOOSE i \in 1..Len(Candidates) : Fails(Candidates[i]) /\ MissingBefore(i)
    ELSE 0

\* C30: an Include that meets, before any candidate that resolves, a
\* candidate that is not a string or whose lookup fails with an error
\* other than TemplateNotFound ends at once with that error
\* (InvalidOperation for the value that is not a string), with or without
\* ignore_missing: no template is evaluated, nothing is written and the
\* State is as it was.
C30_FailingCandidate ==
    [][(AtInstr("Include") /\ FirstFailing > 0) =>
        LET c == Candidates[FirstFailing]
        IN  /\ rv'.st = "err"
            /\ rv'.err.kind = IF c.t # "str" THEN "InvalidOperation"
                              ELSE get_template(as_str(c)).err.kind
            /\ rv'.err.source = <<>>
            /\ ~Enters
            /\ state' = state
            /\ out' = out
            /\ hist' = hist
            /\ report'.kind = "include" /\ ~report'.evaluated]_vars

\* the include of [broken, leaf] with ignore missing has ended with the
\* error of the lookup of broken and without output
C30_Witness ==
    /\ Done
    /\ root = "incbrokenign"
    /\ rv.st = "err"
    /\ rv.err.kind = "SyntaxError"
    /\ out.sink = <<>>
    /\ report.kind = "include" /\ ~report.evaluated

\* the opcodes that set pc to their operand
JumpOps == {"Jump", "JumpIfFalse", "JumpIfFalseOrPop", "JumpIfTrueOrPop", "Iterate"}

\* the instruction sequence has no backward jump: the instruction at index
\* i - 1 never sets pc below i
ForwardOnly(code) ==
    \A i \in 1..Len(Code[code]) :
        Code[code][i].op \in JumpOps => Code[code][i].n >= i

\* all the instruction sequences of the environment but the ones that jump
\* backwards
ForwardCode == {code \in DOMAIN Code : ForwardOnly(code)}

\* the instructions the evaluation is running have no backward jump
OnForwardCode == state.instructions \in ForwardCode

\* C31: an evaluation that only runs instruction sequences without
\* backward jumps terminates; an evaluation switches to the parent
\* instructions at most once per template name, every switch is to a name
\* load_blocks has recorded, and an extends of a name that is recorded
\* already ends with InvalidOperation and no switch.
C31_Terminates ==
    /\ <>(Done \/ ~OnForwardCode)
    /\ [](\A a \in 1..Len(calls) :
            /\ \A i, j \in 1..Len(calls[a].switched) :
                  calls[a].switched[i] = calls[a].switched[j] => i = j)
    /\ [][ExtendsSwitch =>
            /\ InstructionsName[state'.instructions] \in state.loaded_templates
            /\ Len(Top'.switched) <= Cardinality(state.loaded_templates)]_vars
    /\ [][(AtInstr("LoadBlocks") /\ Peek(Top.stack).t = "str"
                                 /\ as_str(Peek(Top.stack)) \in state.loaded_templates) =>
            /\ rv'.st = "err" /\ rv'.err.kind = "InvalidOperation"
            /\ Top'.parent_instructions = Top.parent_instructions
            /\ state' = state]_vars

\* the chain cycA -> cycB -> cycA has ended on the second extends of cycB,
\* after one switch to each of the two names
C31_Witness ==
    /\ Done
    /\ root = "cycA"
    /\ rv.st = "err" /\ rv.err.kind = "InvalidOperation"
    /\ Top.switched = <<"cycB", "cycA">>
    /\ OnForwardCode

=============================================================================
